---- MODULE Spec2Model ----
(***************************************************************************)
(* The payroll API (src/src/app.js, src/src/middlewares/auth.js): the     *)
(* payment report GET /relatorios/pagamento (lines 440-600) and the routes *)
(* around it.                                                              *)
(*                                                                         *)
(* Specifications:                                                         *)
(*   SpecAgg       the aggregation (lines 517-595) run row by row over     *)
(*                 read results drawn from bounded sets;                   *)
(*   Spec          the whole report handler: validation, the four awaited  *)
(*                 reads, each of which the store may fail, the response;  *)
(*   SpecConc      two report requests interleaved at their awaits;        *)
(*   SpecAuth      requireAuth in front of the report handler;             *)
(*   SpecAuthLive  the same, with the handler's steps weakly fair;         *)
(*   SpecObras     the routes on cadastro_obra, called by two users;       *)
(*   SpecUsuarios  POST /usuarios with its rollback;                       *)
(*   SpecLanc      POST /lanc-diarias;                                     *)
(*   SpecEquipe    POST /equipe-obra and DELETE /equipe-obra/:id, two      *)
(*                 requests in flight;                                     *)
(*   SpecContas    POST /usuarios, PATCH /usuarios/:id and DELETE          *)
(*                 /usuarios/:id;                                          *)
(*   SpecWrites    the report handler while other requests write to the    *)
(*                 tables it reads.                                        *)
(*                                                                         *)
(* Numbers are JavaScript Numbers restricted to small integers, on which   *)
(* double arithmetic is exact, together with NaN, Infinity and -Infinity.  *)
(* Rounding of fractional amounts is outside the model.                    *)
(***************************************************************************)
EXTENDS Integers, Sequences, FiniteSets, TLC

VARIABLES
  db,           \* the store: cadastro_func, lanc_diarias, empreitas, lanc_diarias_ajustes
  pc,           \* position of the request in the handler
  query,        \* req.query: inicio, fim
  funcList,     \* funcionarios || []
  diarias,      \* rows of the lanc_diarias read
  empreitas,    \* rows of the empreitas read
  ajustesRows,  \* rows of the lanc_diarias_ajustes read
  map,          \* the accumulator Map
  idx,          \* fact rows consumed by the three loops so far
  out,          \* the rows handed to res.json
  res,          \* responses sent, in order
  reads,        \* tables a select was issued on, in order
  peer,         \* a second report request, parked at an await
  auth,         \* requireAuth on one request
  obra,         \* cadastro_obra and the request on the /obras routes
  user,         \* Auth accounts, cadastro_user and the request on /usuarios
  lanc,         \* lanc_diarias by key and the request on /lanc-diarias
  equipe,       \* equipe_obra and the requests on /equipe-obra
  snaps         \* the states of the store during a report request

vars == <<db, pc, query, funcList, diarias, empreitas, ajustesRows, map, idx, out, res, reads,
          peer, auth, obra, user, lanc, equipe, snaps>>

\* the state of the routes a specification leaves out
others == <<peer, auth, obra, user, lanc, equipe, snaps>>
Off == [pc |-> "off"]
OthersOff ==
  /\ peer = Off /\ auth = Off /\ obra = Off /\ user = Off /\ lanc = Off
  /\ equipe = Off /\ snaps = Off

(***************************************************************************)
(* JavaScript Number values.                                               *)
(***************************************************************************)
Num(n) == [k |-> "num", v |-> n]
NaN == [k |-> "nan", v |-> 0]
PosInf == [k |-> "inf", v |-> 1]
NegInf == [k |-> "inf", v |-> -1]

\* Number.isFinite(x)
IsFinite(x) == x.k = "num"

\* a + b
JsAdd(a, b) ==
  IF a.k = "nan" \/ b.k = "nan" THEN NaN
  ELSE IF a.k = "inf" /\ b.k = "inf" THEN (IF a.v = b.v THEN a ELSE NaN)
  ELSE IF a.k = "inf" THEN a
  ELSE IF b.k = "inf" THEN b
  ELSE Num(a.v + b.v)

\* a - b
JsSub(a, b) ==
  JsAdd(a, IF b.k = "num" THEN Num(0 - b.v)
           ELSE IF b.k = "inf" THEN [k |-> "inf", v |-> 0 - b.v]
           ELSE NaN)

Sign(n) == IF n > 0 THEN 1 ELSE IF n < 0 THEN -1 ELSE 0

\* a * b
JsMul(a, b) ==
  IF a.k = "nan" \/ b.k = "nan" THEN NaN
  ELSE IF a.k = "num" /\ b.k = "num" THEN Num(a.v * b.v)
  ELSE IF Sign(a.v) * Sign(b.v) = 0 THEN NaN
  ELSE [k |-> "inf", v |-> Sign(a.v) * Sign(b.v)]

\* x || 0 : NaN and 0 are falsy
OrZero(x) ==
  IF x.k = "nan" \/ (x.k = "num" /\ x.v = 0) THEN Num(0) ELSE x

(***************************************************************************)
(* Field values as the store's JSON delivers them: null (or absent), a     *)
(* number, or a string that no JSON number can carry.                      *)
(***************************************************************************)
Null == [t |-> "null", v |-> 0]
JNum(n) == [t |-> "num", v |-> n]
JStr(s) == [t |-> s, v |-> 0]

\* Number(raw ?? dflt)
NumberOr(raw, dflt) ==
  IF raw.t = "null" THEN Num(dflt)
  ELSE IF raw.t = "num" THEN Num(raw.v)
  ELSE IF raw.t = "Infinity" THEN PosInf
  ELSE IF raw.t = "-Infinity" THEN NegInf
  ELSE NaN

(***************************************************************************)
(* The per-request accumulator: a Map (keys in insertion order) from       *)
(* worker id to {dias, total_diaria, total_empreita, total_reembolso,      *)
(* total_adiantamento}.                                                    *)
(***************************************************************************)
NoDias == [d \in {} |-> 0]

NewAcc ==
  [dias |-> NoDias,
   total_diaria |-> Num(0),
   total_empreita |-> Num(0),
   total_reembolso |-> Num(0),
   total_adiantamento |-> Num(0)]

NewMap == [keys |-> <<>>, get |-> [i \in {} |-> 0]]

MapHas(m, funcId) == funcId \in DOMAIN m.get

\* ensure(funcId): the map after the call; the accumulator is m.get[funcId]
ensure(m, funcId) ==
  IF MapHas(m, funcId) THEN m
  ELSE [keys |-> Append(m.keys, funcId), get |-> m.get @@ (funcId :> NewAcc)]

NewDay == [diaria |-> Num(0), empreita |-> Num(0)]

\* if (!obj.dias[dia]) obj.dias[dia] = { diaria: 0, empreita: 0 }
EnsureDay(dias, dia) ==
  IF dia \in DOMAIN dias THEN dias ELSE dias @@ (dia :> NewDay)

\* ValorDia with a non-finite qtd counted as 0 instead of 1
ValorDiaQtdZero(row) ==
  LET qtd == NumberOr(row.qtd, 1)
      v == NumberOr(row.valor_diaria_aplicado, 0)
  IN JsMul(IF IsFinite(qtd) THEN qtd ELSE Num(0),
           IF IsFinite(v) THEN v ELSE Num(0))

\* (Number.isFinite(qtd) ? qtd : 1) * (Number.isFinite(v) ? v : 0)
ValorDia(row) ==
  LET qtd == NumberOr(row.qtd, 1)
      v == NumberOr(row.valor_diaria_aplicado, 0)
  IN JsMul(IF IsFinite(qtd) THEN qtd ELSE Num(1),
           IF IsFinite(v) THEN v ELSE Num(0))

\* DiariaBody with the day bucket assigned (=) instead of incremented (+=)
DiariaBodyOverwrite(m, row) ==
  LET funcId == row.funcionario_id
      dia == row.data
      valorDia == ValorDia(row)
      m1 == ensure(m, funcId)
      obj == m1.get[funcId]
      dias1 == EnsureDay(obj.dias, dia)
  IN [m1 EXCEPT !.get[funcId] =
        [obj EXCEPT !.dias = [dias1 EXCEPT ![dia].diaria = valorDia],
                    !.total_diaria = JsAdd(@, valorDia)]]

\* DiariaBody with total_diaria assigned (=) instead of incremented (+=)
DiariaBodyLastTotal(m, row) ==
  LET funcId == row.funcionario_id
      dia == row.data
      valorDia == ValorDia(row)
      m1 == ensure(m, funcId)
      obj == m1.get[funcId]
      dias1 == EnsureDay(obj.dias, dia)
  IN [m1 EXCEPT !.get[funcId] =
        [obj EXCEPT !.dias = [dias1 EXCEPT ![dia].diaria = JsAdd(@, valorDia)],
                    !.total_diaria = valorDia]]

\* body of the loop over diarias
DiariaBody(m, row) ==
  LET funcId == row.funcionario_id
      dia == row.data
      valorDia == ValorDia(row)
      m1 == ensure(m, funcId)
      obj == m1.get[funcId]
      dias1 == EnsureDay(obj.dias, dia)
  IN [m1 EXCEPT !.get[funcId] =
        [obj EXCEPT !.dias = [dias1 EXCEPT ![dia].diaria = JsAdd(@, valorDia)],
                    !.total_diaria = JsAdd(@, valorDia)]]

\* EmpreitaBody with the day bucket assigned (=) instead of incremented (+=)
EmpreitaBodyOverwrite(m, row) ==
  LET funcId == row.funcionario_id
      dia == row.data_pagamento
      valor == NumberOr(row.valor, 0)
      m1 == ensure(m, funcId)
      obj == m1.get[funcId]
      dias1 == EnsureDay(obj.dias, dia)
  IN [m1 EXCEPT !.get[funcId] =
        [obj EXCEPT !.dias = [dias1 EXCEPT ![dia].empreita = valor],
                    !.total_empreita = JsAdd(@, valor)]]

\* EmpreitaBody that adds to a day bucket only where a daily row made one
EmpreitaBodyExistingDay(m, row) ==
  LET funcId == row.funcionario_id
      dia == row.data_pagamento
      valor == NumberOr(row.valor, 0)
      m1 == ensure(m, funcId)
      obj == m1.get[funcId]
  IN [m1 EXCEPT !.get[funcId] =
        [obj EXCEPT !.dias = IF dia \in DOMAIN obj.dias
                             THEN [obj.dias EXCEPT ![dia].empreita = JsAdd(@, valor)]
                             ELSE obj.dias,
                    !.total_empreita = JsAdd(@, valor)]]

\* body of the loop over empreitas
EmpreitaBody(m, row) ==
  LET funcId == row.funcionario_id
      dia == row.data_pagamento
      valor == NumberOr(row.valor, 0)
      m1 == ensure(m, funcId)
      obj == m1.get[funcId]
      dias1 == EnsureDay(obj.dias, dia)
  IN [m1 EXCEPT !.get[funcId] =
        [obj EXCEPT !.dias = [dias1 EXCEPT ![dia].empreita = JsAdd(@, valor)],
                    !.total_empreita = JsAdd(@, valor)]]

\* AjusteBody that also books the reimbursement on the day data_inicio
AjusteBodyInDay(m, row) ==
  LET funcId == row.funcionario_id
      reembolso == NumberOr(row.reembolso, 0)
      adiantamento == NumberOr(row.adiantamento, 0)
      m1 == ensure(m, funcId)
      obj == m1.get[funcId]
      dias1 == EnsureDay(obj.dias, row.data_inicio)
  IN [m1 EXCEPT !.get[funcId] =
        [obj EXCEPT
           !.dias = dias1,
           !.total_reembolso =
              JsAdd(@, IF IsFinite(reembolso) THEN reembolso ELSE Num(0)),
           !.total_adiantamento =
              JsAdd(@, IF IsFinite(adiantamento) THEN adiantamento ELSE Num(0))]]

\* AjusteBody with = in place of += at lines 569-570
AjusteBodyLastWins(m, row) ==
  LET funcId == row.funcionario_id
      reembolso == NumberOr(row.reembolso, 0)
      adiantamento == NumberOr(row.adiantamento, 0)
      m1 == ensure(m, funcId)
      obj == m1.get[funcId]
  IN [m1 EXCEPT !.get[funcId] =
        [obj EXCEPT
           !.total_reembolso = IF IsFinite(reembolso) THEN reembolso ELSE Num(0),
           !.total_adiantamento =
              IF IsFinite(adiantamento) THEN adiantamento ELSE Num(0)]]

\* body of the loop over ajustesRows
AjusteBody(m, row) ==
  LET funcId == row.funcionario_id
      reembolso == NumberOr(row.reembolso, 0)
      adiantamento == NumberOr(row.adiantamento, 0)
      m1 == ensure(m, funcId)
      obj == m1.get[funcId]
  IN [m1 EXCEPT !.get[funcId] =
        [obj EXCEPT
           !.total_reembolso =
              JsAdd(@, IF IsFinite(reembolso) THEN reembolso ELSE Num(0)),
           !.total_adiantamento =
              JsAdd(@, IF IsFinite(adiantamento) THEN adiantamento ELSE Num(0))]]

\* OutRow that hands out the worker without its nome
OutRowStripped(f, agg) ==
  LET total_reembolso == OrZero(agg.total_reembolso)
      total_adiantamento == OrZero(agg.total_adiantamento)
      total_pagar ==
        JsSub(JsAdd(JsAdd(OrZero(agg.total_diaria), OrZero(agg.total_empreita)),
                    total_reembolso),
              total_adiantamento)
  IN [funcionario |-> [f EXCEPT !.nome = ""],
      dias |-> agg.dias,
      total_diaria |-> agg.total_diaria,
      total_empreita |-> agg.total_empreita,
      total_reembolso |-> total_reembolso,
      total_adiantamento |-> total_adiantamento,
      total_pagar |-> total_pagar]

\* one element of funcList.map((f) => ...)
OutRow(f, agg) ==
  LET total_reembolso == OrZero(agg.total_reembolso)
      total_adiantamento == OrZero(agg.total_adiantamento)
      total_pagar ==
        JsSub(JsAdd(JsAdd(OrZero(agg.total_diaria), OrZero(agg.total_empreita)),
                    total_reembolso),
              total_adiantamento)
  IN [funcionario |-> f,
      dias |-> agg.dias,
      total_diaria |-> agg.total_diaria,
      total_empreita |-> agg.total_empreita,
      total_reembolso |-> total_reembolso,
      total_adiantamento |-> total_adiantamento,
      total_pagar |-> total_pagar]

RECURSIVE EnsureAll(_, _, _)
\* the Map after the ensure(f.id) calls of funcList.map
EnsureAll(fl, m, i) ==
  IF i > Len(fl) THEN m ELSE EnsureAll(fl, ensure(m, fl[i].id), i + 1)

\* Out over the workers that have an accumulator only
OutActiveOnly(fl, m) ==
  LET active == SelectSeq(fl, LAMBDA f : MapHas(m, f.id))
  IN [i \in 1..Len(active) |-> OutRow(active[i], m.get[active[i].id])]

\* Out built from the entries of the Map instead of from funcList
OutFromMap(fl, m) ==
  LET m1 == EnsureAll(fl, m, 1)
      Worker(id) == IF \E i \in 1..Len(fl) : fl[i].id = id
                    THEN fl[CHOOSE i \in 1..Len(fl) : fl[i].id = id]
                    ELSE [id |-> id, nome |-> ""]
  IN [i \in 1..Len(m1.keys) |-> OutRow(Worker(m1.keys[i]), m1.get[m1.keys[i]])]

\* Out when the rows are pushed onto one array of the module, which holds
\* the rows of the request that finished before
OutPushed(fl, m) ==
  peer.out \o [i \in 1..Len(fl) |-> OutRow(fl[i], ensure(m, fl[i].id).get[fl[i].id])]

\* out = funcList.map((f) => { const agg = ensure(f.id); ... })
Out(fl, m) ==
  [i \in 1..Len(fl) |-> OutRow(fl[i], ensure(m, fl[i].id).get[fl[i].id])]

RECURSIVE Fold(_, _, _, _)
\* for (const row of rows) body: kind selects the loop
Fold(kind, m, rows, i) ==
  IF i > Len(rows) THEN m
  ELSE Fold(kind,
            IF kind = "diarias" THEN DiariaBody(m, rows[i])
            ELSE IF kind = "empreitas" THEN EmpreitaBody(m, rows[i])
            ELSE AjusteBody(m, rows[i]),
            rows, i + 1)

\* lines 517-593: the three loops, then the output rows
Aggregate(fl, ds, es, as) ==
  Out(fl, Fold("ajustes", Fold("empreitas", Fold("diarias", NewMap, ds, 1), es, 1), as, 1))

(***************************************************************************)
(* Bounded inputs.                                                         *)
(***************************************************************************)
MaxRows == 3

\* cadastro_func rows; the read orders them by nome, not by id
Ana == [id |-> "w2", nome |-> "Ana"]
Bia == [id |-> "w1", nome |-> "Bia"]

\* non-empty results of the cadastro_func read (ids unique, ordered by nome)
Rosters == {<<Ana>>, <<Bia>>, <<Ana, Bia>>}

\* calendar dates, as day numbers
Dates == {1, 2}

\* (funcionario_id, date) of fact rows; "ghost" is the id of no worker
Keys == {<<"w1", 1>>, <<"w1", 2>>, <<"w2", 1>>, <<"ghost", 1>>}

DailyRow(k, qtd, v) ==
  [funcionario_id |-> k[1], data |-> k[2], qtd |-> qtd, valor_diaria_aplicado |-> v]

\* well-formed rows on every key; rows with an absent or non-finite field on one
DailyRows ==
  {DailyRow(k, JNum(2), JNum(3)) : k \in Keys}
  \cup {DailyRow(<<"w1", 1>>, p[1], p[2]) :
          p \in {<<Null, JNum(3)>>, <<JStr("NaN"), JNum(3)>>,
                 <<JNum(2), Null>>, <<JNum(2), JStr("Infinity")>>}}

PieceRow(k, valor) ==
  [funcionario_id |-> k[1], data_pagamento |-> k[2], valor |-> valor]

PieceRows ==
  {PieceRow(k, JNum(5)) : k \in Keys}
  \cup {PieceRow(<<"w1", 1>>, v) : v \in {Null, JStr("NaN"), JStr("Infinity")}}

AdjustRow(f, reembolso, adiantamento) ==
  [funcionario_id |-> f, data_inicio |-> 1, reembolso |-> reembolso,
   adiantamento |-> adiantamento]

AdjustRows ==
  {AdjustRow(f, p[1], p[2]) :
     f \in {"w1", "w2", "ghost"}, p \in {<<JNum(4), JNum(1)>>, <<Null, JNum(7)>>}}
  \cup {AdjustRow("w1", JStr("NaN"), JStr("Infinity"))}

\* res.status(status).json({ ok, data?, error? }); data tells whether data is sent
Reply(status, ok, data, error) ==
  [status |-> status, ok |-> ok, data |-> data, error |-> error]

NoDb == [cadastro_func |-> <<>>, lanc_diarias |-> <<>>, empreitas |-> <<>>,
         lanc_diarias_ajustes |-> <<>>]

(***************************************************************************)
(* SpecAgg: lines 517-595 over arbitrary read results, one loop iteration  *)
(* per step.                                                               *)
(***************************************************************************)
InitAgg ==
  /\ db = NoDb
  /\ pc = "loops"
  /\ query = [inicio |-> <<1>>, fim |-> <<2>>]
  /\ funcList \in Rosters
  /\ \E nd \in 0..MaxRows : \E ne \in 0..(MaxRows - nd) : \E na \in 0..(MaxRows - nd - ne) :
       /\ diarias \in [1..nd -> DailyRows]
       /\ empreitas \in [1..ne -> PieceRows]
       /\ ajustesRows \in [1..na -> AdjustRows]
  /\ map = NewMap
  /\ idx = 0
  /\ out = <<>>
  /\ res = <<>>
  /\ reads = <<>>
  /\ OthersOff

UnchangedInputs == UNCHANGED <<others, db, query, funcList, diarias, empreitas, ajustesRows, reads>>

DiariasIter ==
  /\ pc = "loops"
  /\ idx < Len(diarias)
  /\ map' = DiariaBody(map, diarias[idx + 1])
  /\ idx' = idx + 1
  /\ UNCHANGED <<pc, out, res>>
  /\ UnchangedInputs

EmpreitasIter ==
  /\ pc = "loops"
  /\ idx >= Len(diarias)
  /\ idx < Len(diarias) + Len(empreitas)
  /\ map' = EmpreitaBody(map, empreitas[idx - Len(diarias) + 1])
  /\ idx' = idx + 1
  /\ UNCHANGED <<pc, out, res>>
  /\ UnchangedInputs

AjustesIter ==
  /\ pc = "loops"
  /\ idx >= Len(diarias) + Len(empreitas)
  /\ idx < Len(diarias) + Len(empreitas) + Len(ajustesRows)
  /\ map' = AjusteBody(map, ajustesRows[idx - Len(diarias) - Len(empreitas) + 1])
  /\ idx' = idx + 1
  /\ UNCHANGED <<pc, out, res>>
  /\ UnchangedInputs

\* lines 572-595: build out and reply
Respond ==
  /\ pc = "loops"
  /\ idx = Len(diarias) + Len(empreitas) + Len(ajustesRows)
  /\ out' = Out(funcList, map)
  /\ map' = EnsureAll(funcList, map, 1)
  /\ res' = Append(res, Reply(200, TRUE, TRUE, ""))
  /\ pc' = "done"
  /\ UNCHANGED idx
  /\ UnchangedInputs

NextAgg == DiariasIter \/ EmpreitasIter \/ AjustesIter \/ Respond

SpecAgg == InitAgg /\ [][NextAgg]_vars

(***************************************************************************)
(* Spec: the handler of GET /relatorios/pagamento, lines 440-600. A step   *)
(* is the code between two awaits: the store's answer to the pending       *)
(* select together with the handler's continuation.                        *)
(***************************************************************************)
\* cadastro_func in the order of .order("nome", { ascending: true })
ByNome == <<Ana, Bia>>

\* rows the routes of this API store: every numeric field finite
StoredDaily == {DailyRow(k, JNum(2), JNum(3)) : k \in Keys}
StoredPiece == {PieceRow(k, JNum(5)) : k \in Keys}
StoredAdjust ==
  {AdjustRow(f, JNum(4), JNum(1)) : f \in {"w1", "w2", "ghost"}}
    \cup {AdjustRow("w1", JNum(0), JNum(7)),
          [AdjustRow("w1", JNum(4), JNum(1)) EXCEPT !.data_inicio = 2]}

\* req.query.inicio / fim after String(... || "").trim(): "" or a date
QueryDates == {<<>>, <<1>>, <<2>>, <<3>>}

Init ==
  /\ \E fs \in SUBSET {Ana, Bia} :
     \E nd \in 0..MaxRows : \E ne \in 0..(MaxRows - nd) : \E na \in 0..(MaxRows - nd - ne) :
     \E ds \in [1..nd -> StoredDaily] : \E es \in [1..ne -> StoredPiece] :
     \E as \in [1..na -> StoredAdjust] :
       db = [cadastro_func |-> fs, lanc_diarias |-> ds, empreitas |-> es,
             lanc_diarias_ajustes |-> as]
  /\ pc = "start"
  /\ query \in [inicio : QueryDates, fim : QueryDates]
  /\ funcList = <<>>
  /\ diarias = <<>>
  /\ empreitas = <<>>
  /\ ajustesRows = <<>>
  /\ map = NewMap
  /\ idx = 0
  /\ out = <<>>
  /\ res = <<>>
  /\ reads = <<>>
  /\ OthersOff

\* a select issued on a table, awaiting the store's answer
Issue(table) == Append(reads, [table |-> table, outcome |-> "pending"])

\* the store answers the pending select with data, with { error } or by rejecting
Answer(outcome) == [reads EXCEPT ![Len(reads)].outcome = outcome]

\* .from("cadastro_func").select(...).order("nome", { ascending: true }) on
\* the store in state d
FuncionariosIn(d) == SelectSeq(ByNome, LAMBDA f : f \in d.cadastro_func)

SelectFuncionarios == FuncionariosIn(db)

\* InWindow with .lt(column, fim) in place of .lte
InWindowBeforeFim(date) == query.inicio[1] <= date /\ date < query.fim[1]

\* .gte(column, inicio).lte(column, fim)
InWindow(date) == query.inicio[1] <= date /\ date <= query.fim[1]

FuncIds(fl) == {fl[i].id : i \in 1..Len(fl)}

\* .from("lanc_diarias").select(...).in("funcionario_id", funcIds).gte("data", inicio).lte("data", fim)
\* on the store in state d
DiariasIn(d, funcIds) ==
  SelectSeq(d.lanc_diarias, LAMBDA r : r.funcionario_id \in funcIds /\ InWindow(r.data))

\* the same on empreitas, by data_pagamento
EmpreitasIn(d, funcIds) ==
  SelectSeq(d.empreitas,
            LAMBDA r : r.funcionario_id \in funcIds /\ InWindow(r.data_pagamento))

\* the same on lanc_diarias_ajustes, by data_inicio
AjustesIn(d, funcIds) ==
  SelectSeq(d.lanc_diarias_ajustes,
            LAMBDA r : r.funcionario_id \in funcIds /\ InWindow(r.data_inicio))

SelectDiarias(funcIds) == DiariasIn(db, funcIds)
SelectEmpreitas(funcIds) == EmpreitasIn(db, funcIds)
SelectAjustes(funcIds) == AjustesIn(db, funcIds)

\* return res.status(...).json(...) without touching the request's locals
Finish(reply) ==
  /\ res' = Append(res, reply)
  /\ pc' = "done"

\* lines 445-450: inicio or fim missing or blank
RejectQuery ==
  /\ pc = "start"
  /\ query.inicio = <<>> \/ query.fim = <<>>
  /\ Finish(Reply(400, FALSE, FALSE, "Informe inicio e fim no formato YYYY-MM-DD"))
  /\ UNCHANGED <<others, db, query, funcList, diarias, empreitas, ajustesRows, map, idx, out, reads>>

\* IssueFuncionarios when line 445 tests inicio alone
IssueFuncionariosInicioOnly ==
  /\ pc = "start"
  /\ query.inicio # <<>>
  /\ reads' = Issue("cadastro_func")
  /\ pc' = "awaitFunc"
  /\ UNCHANGED <<others, db, query, funcList, diarias, empreitas, ajustesRows, map, idx, out, res>>

\* lines 453-458: the select on cadastro_func is issued
IssueFuncionarios ==
  /\ pc = "start"
  /\ query.inicio # <<>> /\ query.fim # <<>>
  /\ reads' = Issue("cadastro_func")
  /\ pc' = "awaitFunc"
  /\ UNCHANGED <<others, db, query, funcList, diarias, empreitas, ajustesRows, map, idx, out, res>>

\* lines 460-465: errFunc
FuncionariosError ==
  /\ pc = "awaitFunc"
  /\ reads' = Answer("error")
  /\ Finish(Reply(500, FALSE, FALSE, "Falha ao listar funcionarios"))
  /\ UNCHANGED <<others, db, query, funcList, diarias, empreitas, ajustesRows, map, idx, out>>

\* FuncionariosEmpty without the early return of lines 468-470
FuncionariosEmptyNoReturn ==
  /\ pc = "awaitFunc"
  /\ SelectFuncionarios = <<>>
  /\ funcList' = <<>>
  /\ reads' = Append(Answer("data"), [table |-> "lanc_diarias", outcome |-> "pending"])
  /\ pc' = "awaitDiarias"
  /\ UNCHANGED <<others, db, query, diarias, empreitas, ajustesRows, map, idx, out, res>>

\* lines 467-470: an empty roster
FuncionariosEmpty ==
  /\ pc = "awaitFunc"
  /\ SelectFuncionarios = <<>>
  /\ reads' = Answer("data")
  /\ funcList' = <<>>
  /\ Finish(Reply(200, TRUE, TRUE, ""))
  /\ UNCHANGED <<others, db, query, diarias, empreitas, ajustesRows, map, idx, out>>

\* lines 467-478: the roster is kept and the select on lanc_diarias issued
FuncionariosOk ==
  /\ pc = "awaitFunc"
  /\ SelectFuncionarios # <<>>
  /\ funcList' = SelectFuncionarios
  /\ reads' = Append(Answer("data"), [table |-> "lanc_diarias", outcome |-> "pending"])
  /\ pc' = "awaitDiarias"
  /\ UNCHANGED <<others, db, query, diarias, empreitas, ajustesRows, map, idx, out, res>>

\* lines 480-485: errDiarias
DiariasError ==
  /\ pc = "awaitDiarias"
  /\ reads' = Answer("error")
  /\ Finish(Reply(500, FALSE, FALSE, "Falha ao buscar diarias"))
  /\ UNCHANGED <<others, db, query, funcList, diarias, empreitas, ajustesRows, map, idx, out>>

\* DiariasOk keeping no row of the read
DiariasOkNoRows ==
  /\ pc = "awaitDiarias"
  /\ diarias' = <<>>
  /\ reads' = Append(Answer("data"), [table |-> "empreitas", outcome |-> "pending"])
  /\ pc' = "awaitEmpreitas"
  /\ UNCHANGED <<others, db, query, funcList, empreitas, ajustesRows, map, idx, out, res>>

\* lines 473-493: the daily rows are kept and the select on empreitas issued
DiariasOk ==
  /\ pc = "awaitDiarias"
  /\ diarias' = SelectDiarias(FuncIds(funcList))
  /\ reads' = Append(Answer("data"), [table |-> "empreitas", outcome |-> "pending"])
  /\ pc' = "awaitEmpreitas"
  /\ UNCHANGED <<others, db, query, funcList, empreitas, ajustesRows, map, idx, out, res>>

\* lines 495-500: errEmp
EmpreitasError ==
  /\ pc = "awaitEmpreitas"
  /\ reads' = Answer("error")
  /\ Finish(Reply(500, FALSE, FALSE, "Falha ao buscar empreitas"))
  /\ UNCHANGED <<others, db, query, funcList, diarias, empreitas, ajustesRows, map, idx, out>>

\* lines 488-508: the piece-work rows are kept and the select on lanc_diarias_ajustes issued
EmpreitasOk ==
  /\ pc = "awaitEmpreitas"
  /\ empreitas' = SelectEmpreitas(FuncIds(funcList))
  /\ reads' = Append(Answer("data"),
                     [table |-> "lanc_diarias_ajustes", outcome |-> "pending"])
  /\ pc' = "awaitAjustes"
  /\ UNCHANGED <<others, db, query, funcList, diarias, ajustesRows, map, idx, out, res>>

\* AjustesError without the errAj check: the loops run over ajustesRows || []
AjustesErrorIgnored ==
  /\ pc = "awaitAjustes"
  /\ LET m == Fold("empreitas", Fold("diarias", NewMap, diarias, 1), empreitas, 1)
     IN /\ ajustesRows' = <<>>
        /\ idx' = Len(diarias) + Len(empreitas)
        /\ out' = Out(funcList, m)
        /\ map' = EnsureAll(funcList, m, 1)
  /\ reads' = Answer("error")
  /\ Finish(Reply(200, TRUE, TRUE, ""))
  /\ UNCHANGED <<others, db, query, funcList, diarias, empreitas>>

\* lines 510-516: errAj
AjustesError ==
  /\ pc = "awaitAjustes"
  /\ reads' = Answer("error")
  /\ Finish(Reply(500, FALSE, FALSE, "Falha ao buscar ajustes (reembolso/adiantamento)"))
  /\ UNCHANGED <<others, db, query, funcList, diarias, empreitas, ajustesRows, map, idx, out>>

\* AjustesOk when the Map of line 517 is one Map of the module, which the
\* parked request has filled or will fill too
AjustesOkSharedMap ==
  /\ pc = "awaitAjustes"
  /\ LET rows == SelectAjustes(FuncIds(funcList))
         m == Fold("ajustes",
                   Fold("empreitas", Fold("diarias", peer.map, diarias, 1), empreitas, 1),
                   rows, 1)
     IN /\ ajustesRows' = rows
        /\ idx' = Len(diarias) + Len(empreitas) + Len(rows)
        /\ out' = Out(funcList, m)
        /\ map' = EnsureAll(funcList, m, 1)
  /\ reads' = Answer("data")
  /\ Finish(Reply(200, TRUE, TRUE, ""))
  /\ UNCHANGED <<others, db, query, funcList, diarias, empreitas>>

\* lines 503-595: the adjustment rows arrive; the three loops, out, the reply
AjustesOk ==
  /\ pc = "awaitAjustes"
  /\ LET rows == SelectAjustes(FuncIds(funcList))
         m == Fold("ajustes",
                   Fold("empreitas", Fold("diarias", NewMap, diarias, 1), empreitas, 1),
                   rows, 1)
     IN /\ ajustesRows' = rows
        /\ idx' = Len(diarias) + Len(empreitas) + Len(rows)
        /\ out' = Out(funcList, m)
        /\ map' = EnsureAll(funcList, m, 1)
  /\ reads' = Answer("data")
  /\ Finish(Reply(200, TRUE, TRUE, ""))
  /\ UNCHANGED <<others, db, query, funcList, diarias, empreitas>>

\* AwaitThrows with a catch block that sends nothing
AwaitThrowsSilent ==
  /\ pc \in {"awaitFunc", "awaitDiarias", "awaitEmpreitas", "awaitAjustes"}
  /\ reads' = Answer("threw")
  /\ pc' = "done"
  /\ UNCHANGED <<others, db, query, funcList, diarias, empreitas, ajustesRows, map, idx, out,
                 res>>

\* lines 596-599: an awaited select rejects and the catch block replies
AwaitThrows ==
  /\ pc \in {"awaitFunc", "awaitDiarias", "awaitEmpreitas", "awaitAjustes"}
  /\ reads' = Answer("threw")
  /\ Finish(Reply(500, FALSE, FALSE, "Erro interno"))
  /\ UNCHANGED <<others, db, query, funcList, diarias, empreitas, ajustesRows, map, idx, out>>

Next ==
  \/ RejectQuery
  \/ IssueFuncionarios
  \/ FuncionariosError
  \/ FuncionariosEmpty
  \/ FuncionariosOk
  \/ DiariasError
  \/ DiariasOk
  \/ EmpreitasError
  \/ EmpreitasOk
  \/ AjustesError
  \/ AjustesOk
  \/ AwaitThrows

Spec == Init /\ [][Next]_vars

(***************************************************************************)
(* SpecConc: two requests on GET /relatorios/pagamento in one process.     *)
(* The handler runs one request until its next await; there the event loop *)
(* may resume the other one. The variables pc .. reads are the locals of   *)
(* the request that runs, peer holds the locals of the one that waits.     *)
(***************************************************************************)
Locals ==
  [pc |-> pc, query |-> query, funcList |-> funcList, diarias |-> diarias,
   empreitas |-> empreitas, ajustesRows |-> ajustesRows, map |-> map, idx |-> idx,
   out |-> out, res |-> res, reads |-> reads]

\* the locals of a request that has not run yet
Arrived(q) ==
  [pc |-> "start", query |-> q, funcList |-> <<>>, diarias |-> <<>>, empreitas |-> <<>>,
   ajustesRows |-> <<>>, map |-> NewMap, idx |-> 0, out |-> <<>>, res |-> <<>>,
   reads |-> <<>>]

ConcQueries ==
  {[inicio |-> <<1>>, fim |-> <<1>>], [inicio |-> <<1>>, fim |-> <<2>>],
   [inicio |-> <<2>>, fim |-> <<2>>], [inicio |-> <<>>, fim |-> <<2>>]}

ConcDaily == {DailyRow(<<"w1", d>>, JNum(2), JNum(3)) : d \in Dates}
ConcPiece == {PieceRow(<<"w2", 1>>, JNum(5))}
ConcAdjust ==
  {AdjustRow("w1", JNum(4), JNum(1)),
   [AdjustRow("w1", JNum(4), JNum(1)) EXCEPT !.data_inicio = 2]}

InitConc ==
  /\ \E fs \in {{}, {Bia}, {Ana, Bia}} :
     \E nd \in 0..MaxRows : \E ne \in 0..(MaxRows - nd) : \E na \in 0..(MaxRows - nd - ne) :
     \E ds \in [1..nd -> ConcDaily] : \E es \in [1..ne -> ConcPiece] :
     \E as \in [1..na -> ConcAdjust] :
       db = [cadastro_func |-> fs, lanc_diarias |-> ds, empreitas |-> es,
             lanc_diarias_ajustes |-> as]
  /\ pc = "start"
  /\ query \in ConcQueries
  /\ funcList = <<>>
  /\ diarias = <<>>
  /\ empreitas = <<>>
  /\ ajustesRows = <<>>
  /\ map = NewMap
  /\ idx = 0
  /\ out = <<>>
  /\ res = <<>>
  /\ reads = <<>>
  /\ \E q \in ConcQueries : peer = Arrived(q)
  /\ auth = Off /\ obra = Off /\ user = Off /\ lanc = Off
  /\ equipe = Off /\ snaps = Off

\* at an await (or at its end) the running request yields to the waiting one
Switch ==
  /\ peer.pc # "done"
  /\ peer' = Locals
  /\ pc' = peer.pc
  /\ query' = peer.query
  /\ funcList' = peer.funcList
  /\ diarias' = peer.diarias
  /\ empreitas' = peer.empreitas
  /\ ajustesRows' = peer.ajustesRows
  /\ map' = peer.map
  /\ idx' = peer.idx
  /\ out' = peer.out
  /\ res' = peer.res
  /\ reads' = peer.reads
  /\ UNCHANGED <<db, auth, obra, user, lanc, equipe, snaps>>

NextConc == Next \/ Switch

SpecConc == InitConc /\ [][NextConc]_vars

(***************************************************************************)
(* Vocabulary of the claims.                                               *)
(***************************************************************************)
Done == pc = "done" /\ Len(out) > 0

RowsOf(rows, w) == SelectSeq(rows, LAMBDA r : r.funcionario_id = w)

DailyOn(w, d) == SelectSeq(diarias, LAMBDA r : r.funcionario_id = w /\ r.data = d)

PieceOn(w, d) ==
  SelectSeq(empreitas, LAMBDA r : r.funcionario_id = w /\ r.data_pagamento = d)

RosterIds == {funcList[i].id : i \in 1..Len(funcList)}

\* qtd as the data model resolves it: the value if a finite number, else 1
QtdOf(r) == IF r.qtd.t = "num" THEN r.qtd.v ELSE 1

\* a monetary field as the data model resolves it: the value if finite, else 0
Money(raw) == IF raw.t = "num" THEN raw.v ELSE 0

RECURSIVE DailySum(_, _)
\* sum of qtd * rate over daily rows, from row i on
DailySum(rows, i) ==
  IF i > Len(rows) THEN 0
  ELSE QtdOf(rows[i]) * Money(rows[i].valor_diaria_aplicado) + DailySum(rows, i + 1)

RECURSIVE PieceSum(_, _)
\* sum of valor (finite, else 0) over piece-work rows, from row i on
PieceSum(rows, i) ==
  IF i > Len(rows) THEN 0 ELSE Money(rows[i].valor) + PieceSum(rows, i + 1)

RECURSIVE ValorSum(_, _)
\* sum of valor as a Number (null counts 0) over piece-work rows, from row i on
ValorSum(rows, i) ==
  IF i > Len(rows) THEN Num(0)
  ELSE JsAdd(NumberOr(rows[i].valor, 0), ValorSum(rows, i + 1))

RECURSIVE AdjustSum(_, _, _)
\* sum of reembolso or adiantamento (finite, else 0) over adjustment rows
AdjustSum(rows, field, i) ==
  IF i > Len(rows) THEN 0
  ELSE Money(IF field = "reembolso" THEN rows[i].reembolso ELSE rows[i].adiantamento)
       + AdjustSum(rows, field, i + 1)

RECURSIVE DiasSum(_, _, _)
\* sum of dias[d].diaria or dias[d].empreita over the keys in ds
DiasSum(dias, field, ds) ==
  IF ds = {} THEN Num(0)
  ELSE LET d == CHOOSE x \in ds : TRUE
       IN JsAdd(IF field = "diaria" THEN dias[d].diaria ELSE dias[d].empreita,
                DiasSum(dias, field, ds \ {d}))

Inactive(w) ==
  /\ RowsOf(diarias, w) = <<>>
  /\ RowsOf(empreitas, w) = <<>>
  /\ RowsOf(ajustesRows, w) = <<>>

(***************************************************************************)
(* C1: a successful report has exactly one row per roster worker, row i    *)
(* carrying roster worker i; a worker with no fact rows appears with dias  *)
(* empty and all five totals 0.                                            *)
(***************************************************************************)
C1_OneRowPerWorker ==
  pc = "done" =>
    /\ Len(out) = Len(funcList)
    /\ \A i \in 1..Len(funcList) :
         /\ out[i].funcionario = funcList[i]
         /\ Inactive(funcList[i].id) =>
              /\ out[i].dias = NoDias
              /\ out[i].total_diaria = Num(0)
              /\ out[i].total_empreita = Num(0)
              /\ out[i].total_reembolso = Num(0)
              /\ out[i].total_adiantamento = Num(0)
              /\ out[i].total_pagar = Num(0)

\* a two-worker report in which one worker has fact rows and the other none
C1_Witness ==
  /\ Done
  /\ Len(funcList) = 2
  /\ Inactive(funcList[1].id)
  /\ ~Inactive(funcList[2].id)
  /\ out[2].total_pagar # Num(0)

(***************************************************************************)
(* C2: in every row of a successful report,                                *)
(* total_pagar = total_diaria + total_empreita + total_reembolso           *)
(*               - total_adiantamento, for every combination of rows.      *)
(***************************************************************************)
C2_TotalPagarIdentity ==
  pc = "done" =>
    \A i \in 1..Len(out) :
      out[i].total_pagar =
        JsSub(JsAdd(JsAdd(out[i].total_diaria, out[i].total_empreita),
                    out[i].total_reembolso),
              out[i].total_adiantamento)

(***************************************************************************)
(* C3: total_diaria is the sum of dias[d].diaria and total_empreita the    *)
(* sum of dias[d].empreita over the keys of dias, in every accumulator     *)
(* after any number of processed rows and in every row of the report.      *)
(***************************************************************************)
C3_TotalsAreDaySums ==
  /\ \A w \in DOMAIN map.get :
       LET acc == map.get[w]
       IN /\ acc.total_diaria = DiasSum(acc.dias, "diaria", DOMAIN acc.dias)
          /\ acc.total_empreita = DiasSum(acc.dias, "empreita", DOMAIN acc.dias)
  /\ \A i \in 1..Len(out) :
       /\ out[i].total_diaria = DiasSum(out[i].dias, "diaria", DOMAIN out[i].dias)
       /\ out[i].total_empreita = DiasSum(out[i].dias, "empreita", DOMAIN out[i].dias)

\* a report row whose daily and piece-work amounts are spread over two dates
C3_Witness ==
  /\ Done
  /\ \E i \in 1..Len(out) :
       /\ DOMAIN out[i].dias = {1, 2}
       /\ out[i].dias[1].diaria # Num(0)
       /\ out[i].dias[2].diaria # Num(0)
       /\ out[i].dias[2].empreita # Num(0)

(***************************************************************************)
(* C4: dias[d].diaria of worker w is the sum of qtd * rate over all daily  *)
(* rows of (w, d), qtd counting 1 and rate 0 when absent or non-finite;    *)
(* rows of the same (w, d) add up.                                         *)
(***************************************************************************)
C4_DiariaIsSumOfRows ==
  pc = "done" =>
    \A i \in 1..Len(out) : \A d \in Dates :
      LET rows == DailyOn(funcList[i].id, d)
      IN /\ rows # <<>> => d \in DOMAIN out[i].dias
         /\ d \in DOMAIN out[i].dias => out[i].dias[d].diaria = Num(DailySum(rows, 1))

\* two daily rows of one worker on one date, one of them with a non-finite qtd
C4_Witness ==
  /\ Done
  /\ \E i \in 1..Len(out) :
       LET rows == DailyOn(funcList[i].id, 1)
       IN /\ Len(rows) = 2
          /\ rows[1].qtd.t = "num"
          /\ rows[2].qtd.t = "NaN"
          /\ out[i].dias[1].diaria = Num(9)

(***************************************************************************)
(* C5: dias[d].empreita of worker w is the sum of valor over all           *)
(* piece-work rows of (w, d) and total_empreita the sum over all of w's    *)
(* piece-work rows; rows of one date share one bucket, which also holds    *)
(* that date's diaria.                                                     *)
(***************************************************************************)
C5_EmpreitaIsSumOfRows ==
  pc = "done" =>
    \A i \in 1..Len(out) :
      /\ out[i].total_empreita = ValorSum(RowsOf(empreitas, funcList[i].id), 1)
      /\ \A d \in Dates :
           LET rows == PieceOn(funcList[i].id, d)
           IN /\ rows # <<>> => d \in DOMAIN out[i].dias
              /\ d \in DOMAIN out[i].dias =>
                   /\ out[i].dias[d].empreita = ValorSum(rows, 1)
                   /\ out[i].dias[d].diaria =
                        Num(DailySum(DailyOn(funcList[i].id, d), 1))

\* two piece-work rows and a daily row of one worker on one date
C5_Witness ==
  /\ Done
  /\ \E i \in 1..Len(out) :
       /\ Len(PieceOn(funcList[i].id, 1)) = 2
       /\ Len(DailyOn(funcList[i].id, 1)) = 1
       /\ out[i].dias[1] = [diaria |-> Num(6), empreita |-> Num(10)]

(***************************************************************************)
(* C6: a piece-work row whose valor is non-finite or missing contributes 0 *)
(* to dias[data_pagamento].empreita, to total_empreita and to total_pagar. *)
(***************************************************************************)
C6_NonFiniteValorCountsZero ==
  pc = "done" =>
    \A i \in 1..Len(out) :
      LET w == funcList[i].id
          te == PieceSum(RowsOf(empreitas, w), 1)
      IN /\ out[i].total_empreita = Num(te)
         /\ \A d \in DOMAIN out[i].dias :
              out[i].dias[d].empreita = Num(PieceSum(PieceOn(w, d), 1))
         /\ out[i].total_pagar =
              Num(DailySum(RowsOf(diarias, w), 1) + te
                  + AdjustSum(RowsOf(ajustesRows, w), "reembolso", 1)
                  - AdjustSum(RowsOf(ajustesRows, w), "adiantamento", 1))

(***************************************************************************)
(* C7: a fact row whose funcionario_id is the id of no roster worker       *)
(* changes no field of any output row (the report equals the one computed  *)
(* without that row) and causes no error response.                         *)
(***************************************************************************)
NoOrphans(rows) == SelectSeq(rows, LAMBDA r : r.funcionario_id \in RosterIds)

C7_OrphanRowsIgnored ==
  pc = "done" =>
    /\ out = Aggregate(funcList, NoOrphans(diarias), NoOrphans(empreitas),
                       NoOrphans(ajustesRows))
    /\ res = <<Reply(200, TRUE, TRUE, "")>>

\* a report over read results holding an orphan row of each kind
C7_Witness ==
  /\ Done
  /\ NoOrphans(diarias) # diarias
  /\ NoOrphans(empreitas) # empreitas
  /\ NoOrphans(ajustesRows) # ajustesRows

(***************************************************************************)
(* C8: processing an adjustment row changes only total_reembolso and       *)
(* total_adiantamento of its worker: it creates no key in dias and changes *)
(* no dias[d].diaria, dias[d].empreita, total_diaria or total_empreita; a  *)
(* worker with only adjustment rows has an empty dias.                     *)
(***************************************************************************)
AdjustStep ==
  /\ pc = "loops"
  /\ idx >= Len(diarias) + Len(empreitas)
  /\ idx' = idx + 1

C8_AdjustmentsTouchOnlyTotals ==
  [][/\ AdjustStep =>
          LET w == ajustesRows[idx - Len(diarias) - Len(empreitas) + 1].funcionario_id
          IN /\ DOMAIN map'.get = DOMAIN map.get \cup {w}
             /\ \A x \in DOMAIN map.get \ {w} : map'.get[x] = map.get[x]
             /\ LET old == IF w \in DOMAIN map.get THEN map.get[w] ELSE NewAcc
                IN /\ map'.get[w].dias = old.dias
                   /\ map'.get[w].total_diaria = old.total_diaria
                   /\ map'.get[w].total_empreita = old.total_empreita
     /\ pc' = "done" =>
          \A i \in 1..Len(out') :
            (RowsOf(diarias, funcList[i].id) = <<>> /\ RowsOf(empreitas, funcList[i].id) = <<>>)
              => out'[i].dias = NoDias]_vars

\* a reported worker with adjustment rows only: totals booked, dias empty
C8_Witness ==
  /\ Done
  /\ \E i \in 1..Len(out) :
       /\ RowsOf(diarias, funcList[i].id) = <<>>
       /\ RowsOf(empreitas, funcList[i].id) = <<>>
       /\ Len(RowsOf(ajustesRows, funcList[i].id)) = 2
       /\ out[i].total_reembolso = Num(4)
       /\ out[i].total_adiantamento = Num(8)
       /\ out[i].total_pagar = Num(-4)
       /\ out[i].dias = NoDias

(***************************************************************************)
(* C9: the keys of dias in worker w's row are exactly the dates d with at  *)
(* least one daily row (w, data = d) or piece-work row                     *)
(* (w, data_pagamento = d); a date is a key even when its amounts sum to 0.*)
(***************************************************************************)
C9_DiasKeysAreFactDates ==
  pc = "done" =>
    \A i \in 1..Len(out) :
      DOMAIN out[i].dias =
        {d \in Dates : DailyOn(funcList[i].id, d) # <<>> \/ PieceOn(funcList[i].id, d) # <<>>}

\* a date kept as a key with zero amounts, beside a date with piece-work only
C9_Witness ==
  /\ Done
  /\ \E i \in 1..Len(out) :
       /\ DOMAIN out[i].dias = {1, 2}
       /\ out[i].dias[1] = [diaria |-> Num(0), empreita |-> Num(0)]
       /\ DailyOn(funcList[i].id, 2) = <<>>
       /\ out[i].dias[2].empreita = Num(5)

(***************************************************************************)
(* C10: when one of the four reads (workers, daily entries, piece-work,    *)
(* adjustments) returns an error, the request ends with a single failure   *)
(* response (status 500, ok false, no data), no report row computed from   *)
(* the reads that succeeded is returned, and no read is issued after the   *)
(* failed one.                                                             *)
(***************************************************************************)
C10_ReadErrorFailsWholeReport ==
  \A k \in 1..Len(reads) :
    reads[k].outcome = "error" =>
      /\ k = Len(reads)
      /\ \A j \in 1..(k - 1) : reads[j].outcome = "data"
      /\ pc = "done"
      /\ Len(res) = 1
      /\ res[1].status = 500
      /\ res[1].ok = FALSE
      /\ res[1].data = FALSE
      /\ out = <<>>

\* the fourth read fails after the second and third returned rows
C10_Witness ==
  /\ Len(reads) = 4
  /\ reads[4] = [table |-> "lanc_diarias_ajustes", outcome |-> "error"]
  /\ diarias # <<>>
  /\ empreitas # <<>>
  /\ pc = "done"
  /\ res = <<Reply(500, FALSE, FALSE, "Falha ao buscar ajustes (reembolso/adiantamento)")>>

(***************************************************************************)
(* SpecAuth: requireAuth (src/src/middlewares/auth.js) in front of the     *)
(* handler of GET /relatorios/pagamento. A header is the sequence of its   *)
(* pieces: the scheme with its blank, then the token.                      *)
(***************************************************************************)
Headers ==
  {<<>>, <<"Bearer ">>, <<"Bearer ", "t1">>, <<"Bearer ", "t2">>, <<"Bearer ", "t3">>,
   <<"Basic ", "t1">>, <<"t1">>}

\* header.startsWith("Bearer ") ? header.slice(7) : null, null being <<>>
TokenOf(header) ==
  IF Len(header) >= 1 /\ header[1] = "Bearer " THEN Tail(header) ELSE <<>>

\* the users the Auth service knows the tokens of
TokenUser == [t1 |-> "u1", t2 |-> "u2"]

AuthReply(status, error) == [status |-> status, error |-> error]

InitAuth ==
  /\ \E fs \in {{}, {Bia}} : \E n \in 0..1 :
       db = [cadastro_func |-> fs,
             lanc_diarias |-> [i \in 1..n |-> DailyRow(<<"w1", 1>>, JNum(2), JNum(3))],
             empreitas |-> [i \in 1..n |-> PieceRow(<<"w1", 2>>, JNum(5))],
             lanc_diarias_ajustes |-> [i \in 1..n |-> AdjustRow("w1", JNum(4), JNum(1))]]
  /\ pc = "gate"
  /\ query \in {[inicio |-> <<1>>, fim |-> <<2>>], [inicio |-> <<1>>, fim |-> <<>>]}
  /\ funcList = <<>>
  /\ diarias = <<>>
  /\ empreitas = <<>>
  /\ ajustesRows = <<>>
  /\ map = NewMap
  /\ idx = 0
  /\ out = <<>>
  /\ res = <<>>
  /\ reads = <<>>
  /\ \E h \in Headers :
       auth = [pc |-> "recv", header |-> h, verdict |-> "none", authUser |-> "none",
               nexts |-> 0, sent |-> <<>>]
  /\ peer = Off /\ obra = Off /\ user = Off /\ lanc = Off
  /\ equipe = Off /\ snaps = Off

UnchangedHandler ==
  UNCHANGED <<db, query, funcList, diarias, empreitas, ajustesRows, map, idx, out, res,
              reads, peer, obra, user, lanc, equipe, snaps>>

\* lines 5-10: no token in the header
AuthNoToken ==
  /\ auth.pc = "recv"
  /\ TokenOf(auth.header) = <<>>
  /\ auth' = [auth EXCEPT !.pc = "sent",
                          !.sent = Append(@, AuthReply(401, "Token ausente"))]
  /\ UNCHANGED pc
  /\ UnchangedHandler

\* line 12: getUser(token) is called and awaited
AuthGetUser ==
  /\ auth.pc = "recv"
  /\ TokenOf(auth.header) # <<>>
  /\ auth' = [auth EXCEPT !.pc = "getUser"]
  /\ UNCHANGED pc
  /\ UnchangedHandler

\* AuthInvalid without the return of line 15: the 401 is sent, then
\* lines 18-19 run
AuthInvalidNoReturn ==
  /\ auth.pc = "getUser"
  /\ \E v \in {"error", "nouser"} :
       auth' = [auth EXCEPT !.pc = "next", !.verdict = v, !.nexts = @ + 1,
                            !.sent = Append(@, AuthReply(401, "Token invalido"))]
  /\ pc' = "start"
  /\ UnchangedHandler

\* lines 14-16: getUser answered with an error or without a user; the
\* service may do so for any token
AuthInvalid ==
  /\ auth.pc = "getUser"
  /\ \E v \in {"error", "nouser"} :
       auth' = [auth EXCEPT !.pc = "sent", !.verdict = v,
                            !.sent = Append(@, AuthReply(401, "Token invalido"))]
  /\ UNCHANGED pc
  /\ UnchangedHandler

\* lines 18-19: getUser answered with the user of the token; req.authUser is
\* set and next() enters the handler
AuthOk ==
  /\ auth.pc = "getUser"
  /\ TokenOf(auth.header)[1] \in DOMAIN TokenUser
  /\ auth' = [auth EXCEPT !.pc = "next", !.verdict = "user",
                          !.authUser = TokenUser[TokenOf(auth.header)[1]],
                          !.nexts = @ + 1]
  /\ pc' = "start"
  /\ UnchangedHandler

\* lines 20-23: getUser rejected
AuthThrows ==
  /\ auth.pc = "getUser"
  /\ auth' = [auth EXCEPT !.pc = "sent", !.verdict = "threw",
                          !.sent = Append(@, AuthReply(500, "Erro interno no auth"))]
  /\ UNCHANGED pc
  /\ UnchangedHandler

NextAuth ==
  \/ AuthNoToken
  \/ AuthGetUser
  \/ AuthInvalid
  \/ AuthOk
  \/ AuthThrows
  \/ Next

SpecAuth == InitAuth /\ [][NextAuth]_vars

\* SpecAuth where the handler, once entered, keeps running: its code between
\* two awaits ends, and every awaited select is answered or rejects
SpecAuthLive == InitAuth /\ [][NextAuth]_vars /\ WF_vars(Next)

(***************************************************************************)
(* SpecObras: the routes on cadastro_obra (lines 1520-1860), called in any *)
(* order by two authenticated users. Each handler makes one store call, so *)
(* a request is one step: validation, the call with the store's answer,    *)
(* the reply. Of the columns a request can set, nome stands for nome,      *)
(* cidade, uf, situacao, endereco and observacao, which the handlers treat *)
(* alike; responsavel is the other one.                                    *)
(***************************************************************************)
MaxObras == 2

\* req.authUser.id of the callers
Users == {"u1", "u2"}

\* the strings that isUuid accepts (lines 45-50)
Uuids == {"u1", "u2", "o1", "o2", "w1", "w2"}
isUuid(v) == v \in Uuids

\* req.body of the /obras routes; "undef" is a field the body lacks
ObraBodies == [nome : {"undef", "", "B"}, responsavel : {"undef", "u2", "bad"}]

ObraRow(id, nome, responsavel) == [id |-> id, nome |-> nome, responsavel |-> responsavel]

\* res.status(status).json({ ok, data }); "none" where no data is sent
ObraReply(status, ok, data) == [status |-> status, ok |-> ok, data |-> data]

\* the answers of the store to a call: data, { error }, a rejected promise
StoreOutcomes == {"data", "error", "threw"}

InitObras ==
  /\ obra = [tbl |-> {}, n |-> 0, before |-> {},
             req |-> [route |-> "none", caller |-> "u1", id |-> 0,
                      body |-> [nome |-> "undef", responsavel |-> "undef"]],
             res |-> ObraReply(0, FALSE, "none")]
  /\ db = NoDb
  /\ pc = "off"
  /\ query = [inicio |-> <<>>, fim |-> <<>>]
  /\ funcList = <<>>
  /\ diarias = <<>>
  /\ empreitas = <<>>
  /\ ajustesRows = <<>>
  /\ map = NewMap
  /\ idx = 0
  /\ out = <<>>
  /\ res = <<>>
  /\ reads = <<>>
  /\ peer = Off /\ auth = Off /\ user = Off /\ lanc = Off
  /\ equipe = Off /\ snaps = Off

\* one request served: the table after it, the request and its reply
Served(route, u, id, body, tbl, n, reply) ==
  /\ obra' = [tbl |-> tbl, n |-> n, before |-> obra.tbl,
              req |-> [route |-> route, caller |-> u, id |-> id, body |-> body],
              res |-> reply]
  /\ UNCHANGED <<db, pc, query, funcList, diarias, empreitas, ajustesRows, map, idx, out,
                 res, reads, peer, auth, user, lanc, equipe, snaps>>

NoBody == [nome |-> "undef", responsavel |-> "undef"]

\* the catch block of every /obras handler
ObraThrew == ObraReply(500, FALSE, "none")

RECURSIVE ByNomeThenId(_)
\* .order("nome", { ascending: true }); rows of one nome are taken by id
ByNomeThenId(rows) ==
  IF rows = {} THEN <<>>
  ELSE LET first == CHOOSE r \in rows :
                      \A q \in rows :
                        \/ r.nome = q.nome /\ r.id <= q.id
                        \/ r.nome # q.nome /\ r.nome = ""
       IN <<first>> \o ByNomeThenId(rows \ {first})

\* the reply to a store call that gave { error } or rejected
ObraFailed(o) == IF o = "error" THEN ObraReply(500, FALSE, "none") ELSE ObraThrew

\* lines 1520-1542: GET /obras
GetObras ==
  \E u \in Users, o \in StoreOutcomes :
    Served("GET /obras", u, 0, NoBody, obra.tbl, obra.n,
           IF o = "data"
           THEN ObraReply(200, TRUE, ByNomeThenId({r \in obra.tbl : r.responsavel = u}))
           ELSE ObraFailed(o))

\* lines 1543-1563: GET /obras/todas
GetObrasTodas ==
  \E u \in Users, o \in StoreOutcomes :
    Served("GET /obras/todas", u, 0, NoBody, obra.tbl, obra.n,
           IF o = "data" THEN ObraReply(200, TRUE, ByNomeThenId(obra.tbl))
           ELSE ObraFailed(o))

\* .single(): the row if there is exactly one, otherwise { error }
Single(rows, o) ==
  IF o = "threw" THEN ObraThrew
  ELSE IF o = "data" /\ Cardinality(rows) = 1
       THEN ObraReply(200, TRUE, CHOOSE r \in rows : TRUE)
       ELSE ObraReply(404, FALSE, "none")

\* lines 1565-1587: GET /obras/:id
GetObra ==
  \E u \in Users, id \in 1..MaxObras, o \in StoreOutcomes :
    Served("GET /obras/:id", u, id, NoBody, obra.tbl, obra.n,
           Single({r \in obra.tbl : r.id = id /\ r.responsavel = u}, o))

\* lines 1589-1609: GET /obras/admin/:id
GetObraAdmin ==
  \E u \in Users, id \in 1..MaxObras, o \in StoreOutcomes :
    Served("GET /obras/admin/:id", u, id, NoBody, obra.tbl, obra.n,
           Single({r \in obra.tbl : r.id = id}, o))

\* (req.body?.nome || "").trim()
NomeOf(body) == IF body.nome = "undef" THEN "" ELSE body.nome

\* .insert(payload).select("id").single(): the store gives the row the next id
Insert(route, u, body, responsavel, o) ==
  IF o = "data" /\ obra.n < MaxObras
  THEN Served(route, u, 0, body,
              obra.tbl \cup {ObraRow(obra.n + 1, NomeOf(body), responsavel)}, obra.n + 1,
              ObraReply(201, TRUE, [id |-> obra.n + 1]))
  ELSE Served(route, u, 0, body, obra.tbl, obra.n,
              ObraFailed(IF o = "data" THEN "error" ELSE o))

\* PostObras with responsavel: req.body?.responsavel || authId at line 1620
PostObrasFromBody ==
  \E u \in Users, body \in ObraBodies :
    IF NomeOf(body) = ""
    THEN Served("POST /obras", u, 0, body, obra.tbl, obra.n, ObraReply(400, FALSE, "none"))
    ELSE \E o \in StoreOutcomes :
           Insert("POST /obras", u, body,
                  IF body.responsavel = "undef" THEN u ELSE body.responsavel, o)

\* lines 1611-1647: POST /obras
PostObras ==
  \E u \in Users, body \in ObraBodies :
    IF NomeOf(body) = ""
    THEN Served("POST /obras", u, 0, body, obra.tbl, obra.n, ObraReply(400, FALSE, "none"))
    ELSE \E o \in StoreOutcomes : Insert("POST /obras", u, body, u, o)

\* lines 1649-1692: POST /obras/admin
PostObrasAdmin ==
  \E u \in Users, body \in ObraBodies :
    IF ~isUuid(body.responsavel) \/ NomeOf(body) = ""
    THEN Served("POST /obras/admin", u, 0, body, obra.tbl, obra.n,
                ObraReply(400, FALSE, "none"))
    ELSE \E o \in StoreOutcomes : Insert("POST /obras/admin", u, body, body.responsavel, o)

\* .update(patch) on the rows that match: the columns of the patch are set
Patched(r, body, withResponsavel) ==
  [r EXCEPT !.nome = IF body.nome = "undef" THEN @ ELSE body.nome,
            !.responsavel = IF withResponsavel /\ body.responsavel # "undef"
                            THEN body.responsavel ELSE @]

\* PatchObra without .eq("responsavel", authId)
PatchObraAnyOwner ==
  \E u \in Users, id \in 1..MaxObras, body \in ObraBodies :
    IF body.nome = "undef"
    THEN Served("PATCH /obras/:id", u, id, body, obra.tbl, obra.n,
                ObraReply(400, FALSE, "none"))
    ELSE \E o \in StoreOutcomes :
    IF o = "data"
    THEN Served("PATCH /obras/:id", u, id, body,
                {IF r.id = id THEN Patched(r, body, FALSE) ELSE r : r \in obra.tbl},
                obra.n, ObraReply(200, TRUE, "none"))
    ELSE Served("PATCH /obras/:id", u, id, body, obra.tbl, obra.n, ObraFailed(o))

\* lines 1694-1748: PATCH /obras/:id
PatchObra ==
  \E u \in Users, id \in 1..MaxObras, body \in ObraBodies :
    IF body.nome = "undef"
    THEN Served("PATCH /obras/:id", u, id, body, obra.tbl, obra.n,
                ObraReply(400, FALSE, "none"))
    ELSE \E o \in StoreOutcomes :
    IF o = "data"
    THEN Served("PATCH /obras/:id", u, id, body,
                {IF r.id = id /\ r.responsavel = u THEN Patched(r, body, FALSE) ELSE r :
                   r \in obra.tbl},
                obra.n, ObraReply(200, TRUE, "none"))
    ELSE Served("PATCH /obras/:id", u, id, body, obra.tbl, obra.n, ObraFailed(o))

\* lines 1750-1812: PATCH /obras/admin/:id
PatchObraAdmin ==
  \E u \in Users, id \in 1..MaxObras, body \in ObraBodies :
    IF \/ body.responsavel # "undef" /\ ~isUuid(body.responsavel)
       \/ body.responsavel = "undef" /\ body.nome = "undef"
    THEN Served("PATCH /obras/admin/:id", u, id, body, obra.tbl, obra.n,
                ObraReply(400, FALSE, "none"))
    ELSE \E o \in StoreOutcomes :
    IF o = "data"
    THEN Served("PATCH /obras/admin/:id", u, id, body,
                {IF r.id = id THEN Patched(r, body, TRUE) ELSE r : r \in obra.tbl},
                obra.n, ObraReply(200, TRUE, "none"))
    ELSE Served("PATCH /obras/admin/:id", u, id, body, obra.tbl, obra.n, ObraFailed(o))

\* lines 1814-1837: DELETE /obras/:id
DeleteObra ==
  \E u \in Users, id \in 1..MaxObras, o \in StoreOutcomes :
    IF o = "data"
    THEN Served("DELETE /obras/:id", u, id, NoBody,
                {r \in obra.tbl : ~(r.id = id /\ r.responsavel = u)}, obra.n,
                ObraReply(200, TRUE, "none"))
    ELSE Served("DELETE /obras/:id", u, id, NoBody, obra.tbl, obra.n, ObraFailed(o))

\* lines 1839-1860: DELETE /obras/admin/:id
DeleteObraAdmin ==
  \E u \in Users, id \in 1..MaxObras, o \in StoreOutcomes :
    IF o = "data"
    THEN Served("DELETE /obras/admin/:id", u, id, NoBody,
                {r \in obra.tbl : r.id # id}, obra.n, ObraReply(200, TRUE, "none"))
    ELSE Served("DELETE /obras/admin/:id", u, id, NoBody, obra.tbl, obra.n, ObraFailed(o))

NextObras ==
  \/ GetObras
  \/ GetObrasTodas
  \/ GetObra
  \/ GetObraAdmin
  \/ PostObras
  \/ PostObrasAdmin
  \/ PatchObra
  \/ PatchObraAdmin
  \/ DeleteObra
  \/ DeleteObraAdmin

SpecObras == InitObras /\ [][NextObras]_vars

(***************************************************************************)
(* SpecUsuarios: POST /usuarios (lines 232-313), one request after the     *)
(* other. A step is the code between two awaits. The Auth service and the  *)
(* store answer each call with data, with { error } or by rejecting.       *)
(***************************************************************************)
MaxUsers == 2
MinSenha == 6

normSituacao(v, fallback) ==
  LET s == IF v \in {"undef", ""} THEN fallback ELSE v
  IN  IF s = "inativo" THEN "inativo" ELSE "ativo"

RECURSIVE Trim(_)
\* String.prototype.trim on a sequence of characters
Trim(str) ==
  IF str = <<>> THEN <<>>
  ELSE IF Head(str) = " " THEN Trim(Tail(str))
  ELSE IF str[Len(str)] = " " THEN Trim(SubSeq(str, 1, Len(str) - 1))
  ELSE str

Chars(n) == [i \in 1..n |-> "x"]

\* req.body: nome, email, senha as sequences of characters
UsuarioBodies ==
  [nome : {<<>>, <<" ">>, <<"A">>},
   email : {<<>>, <<"a">>, <<"b">>},
   senha : {<<>>, Chars(MinSenha - 1), Chars(MinSenha - 1) \o <<" ">>, Chars(MinSenha)}]

UsuarioReply(status, ok, id) == [status |-> status, ok |-> ok, id |-> id]

\* a field of req.body that is absent, or a string
Absent == [t |-> "undefined", v |-> <<>>]
Given(str) == [t |-> "string", v |-> str]

\* req.body of PATCH /usuarios/:id when it carries nothing
NoPatch ==
  [nome |-> Absent, nivel_acesso |-> "undef", situacao |-> "undef", observacao |-> "undef",
   email |-> Absent, senha |-> Absent]

\* cadastro_user and the Auth accounts as a request finds them
Contas(u) == [rows |-> u.rows, accounts |-> u.accounts]

Call(op, arg, outcome) == [op |-> op, arg |-> arg, outcome |-> outcome]

InitUsuarios ==
  /\ user = [accounts |-> {}, rows |-> {}, n |-> 0, pc |-> "idle",
             body |-> [nome |-> <<>>, email |-> <<>>, senha |-> <<>>],
             newAuthId |-> 0, calls |-> <<>>, res |-> <<>>,
             route |-> "", id |-> 0, patch |-> NoPatch,
             before |-> [rows |-> {}, accounts |-> {}]]
  /\ db = NoDb
  /\ pc = "off"
  /\ query = [inicio |-> <<>>, fim |-> <<>>]
  /\ funcList = <<>>
  /\ diarias = <<>>
  /\ empreitas = <<>>
  /\ ajustesRows = <<>>
  /\ map = NewMap
  /\ idx = 0
  /\ out = <<>>
  /\ res = <<>>
  /\ reads = <<>>
  /\ peer = Off /\ auth = Off /\ obra = Off /\ lanc = Off
  /\ equipe = Off /\ snaps = Off

UnchangedByUsuarios ==
  UNCHANGED <<db, pc, query, funcList, diarias, empreitas, ajustesRows, map, idx, out, res,
              reads, peer, auth, obra, lanc, equipe, snaps>>

\* the pending call is answered
Answered(outcome) == [user.calls EXCEPT ![Len(user.calls)].outcome = outcome]

\* return res.status(...).json(...)
UsuarioDone(u, reply) == [u EXCEPT !.pc = "done", !.res = Append(@, reply)]

\* lines 244-254: nome or email blank, or senha shorter than 6
UsuarioRejected ==
  /\ user.pc \in {"idle", "done"}
  /\ \E body \in UsuarioBodies :
       /\ \/ Trim(body.nome) = <<>>
          \/ Trim(body.email) = <<>>
          \/ Len(Trim(body.senha)) < MinSenha
       /\ user' = [user EXCEPT !.pc = "done", !.body = body, !.newAuthId = 0,
                               !.calls = <<>>, !.res = <<UsuarioReply(400, FALSE, 0)>>,
                               !.route = "POST", !.id = 0, !.patch = NoPatch,
                               !.before = Contas(user)]
  /\ UnchangedByUsuarios

\* lines 257-262: createUser is called
UsuarioCreate ==
  /\ user.pc \in {"idle", "done"}
  /\ \E body \in UsuarioBodies :
       /\ Trim(body.nome) # <<>>
       /\ Trim(body.email) # <<>>
       /\ Len(Trim(body.senha)) >= MinSenha
       /\ user' = [user EXCEPT !.pc = "createUser", !.body = body, !.newAuthId = 0,
                               !.calls = <<Call("createUser", Trim(body.email), "pending")>>,
                               !.res = <<>>,
                               !.route = "POST", !.id = 0, !.patch = NoPatch,
                               !.before = Contas(user)]
  /\ UnchangedByUsuarios

\* lines 264-270: createErr; the service refuses an email that has an account
CreateError ==
  /\ user.pc = "createUser"
  /\ user' = UsuarioDone([user EXCEPT !.calls = Answered("error")],
                         UsuarioReply(409, FALSE, 0))
  /\ UnchangedByUsuarios

\* lines 272-277: no createErr and no created.user.id
CreateNoId ==
  /\ user.pc = "createUser"
  /\ user' = UsuarioDone([user EXCEPT !.calls = Answered("nouser")],
                         UsuarioReply(500, FALSE, 0))
  /\ UnchangedByUsuarios

\* lines 272-291: the account exists with a new id; the insert is called
CreateOk ==
  /\ user.pc = "createUser"
  /\ user.n < MaxUsers
  /\ \A a \in user.accounts : a.email # Trim(user.body.email)
  /\ LET id == user.n + 1
     IN user' = [user EXCEPT
                   !.accounts = @ \cup {[id |-> id, email |-> Trim(user.body.email),
                                          senha |-> Trim(user.body.senha)]},
                   !.n = id,
                   !.newAuthId = id,
                   !.calls = Append(Answered("data"), Call("insert", id, "pending")),
                   !.pc = "insert"]
  /\ UnchangedByUsuarios

\* line 308: the row is stored
InsertOk ==
  /\ user.pc = "insert"
  /\ user' = UsuarioDone(
       [user EXCEPT !.rows = @ \cup {[id |-> user.newAuthId, nome |-> Trim(user.body.nome),
                                      email |-> Trim(user.body.email),
                                      nivel_acesso |-> "encarregado",
                                      situacao |-> normSituacao("undef", "ativo"),
                                      observacao |-> "null"]},
                    !.calls = Answered("data")],
       UsuarioReply(201, TRUE, user.newAuthId))
  /\ UnchangedByUsuarios

\* InsertError without the rollback of lines 296-301
InsertErrorNoRollback ==
  /\ user.pc = "insert"
  /\ user' = UsuarioDone([user EXCEPT !.calls = Answered("error")],
                         UsuarioReply(500, FALSE, 0))
  /\ UnchangedByUsuarios

\* lines 293-298: insertErr; deleteUser(newAuthId) is called
InsertError ==
  /\ user.pc = "insert"
  /\ user' = [user EXCEPT
                 !.calls = Append(Answered("error"),
                                  Call("deleteUser", user.newAuthId, "pending")),
                 !.pc = "deleteUser"]
  /\ UnchangedByUsuarios

\* lines 297-305: deleteUser answered, with the account removed, with
\* { error } or by rejecting (caught at 299); then the 500
Rollback ==
  /\ user.pc = "deleteUser"
  /\ \E o \in StoreOutcomes :
       user' = UsuarioDone(
         [user EXCEPT !.calls = Answered(o),
                      !.accounts = IF o = "data"
                                   THEN {a \in @ : a.id # user.newAuthId} ELSE @],
         UsuarioReply(500, FALSE, 0))
  /\ UnchangedByUsuarios

\* lines 309-312: createUser or the insert rejected
UsuarioThrows ==
  /\ user.pc \in {"createUser", "insert"}
  /\ user' = UsuarioDone([user EXCEPT !.calls = Answered("threw")],
                         UsuarioReply(500, FALSE, 0))
  /\ UnchangedByUsuarios

NextUsuarios ==
  \/ UsuarioRejected
  \/ UsuarioCreate
  \/ CreateError
  \/ CreateNoId
  \/ CreateOk
  \/ InsertOk
  \/ InsertError
  \/ Rollback
  \/ UsuarioThrows

SpecUsuarios == InitUsuarios /\ [][NextUsuarios]_vars

(***************************************************************************)
(* SpecLanc: POST /lanc-diarias (lines 1053-1101), one request after the   *)
(* other. Strings are sequences of characters or of whole words; a blank   *)
(* is the character " ".                                                   *)
(***************************************************************************)
MaxBatch == 2

Undef == [t |-> "undefined", v |-> 0]

\* Number(raw)
JsNumber(raw) ==
  IF raw.t = "null" THEN Num(0)
  ELSE IF raw.t = "num" THEN Num(raw.v)
  ELSE IF raw.t = "Infinity" THEN PosInf
  ELSE IF raw.t = "-Infinity" THEN NegInf
  ELSE NaN

RawRec(obra_id, funcionario_id, data, qtd, vda) ==
  [obra_id |-> obra_id, funcionario_id |-> funcionario_id, data |-> data, qtd |-> qtd,
   valor_diaria_aplicado |-> vda]

\* records that pass the checks of lines 1068-1078
GoodRecs ==
  {RawRec(<<"o1">>, <<"w1">>, <<"d1">>, JNum(1), JNum(3)),
   RawRec(<<"o1">>, <<"w1">>, <<"d1">>, JNum(2), JNum(3)),
   RawRec(<<" ", "o1">>, <<"w1">>, <<"d1", " ">>, Null, JNum(3)),
   RawRec(<<"o1">>, <<"w1">>, <<"d2">>, JNum(1), JNum(3))}

\* records that fail one of them
BadRecs ==
  {RawRec(<<"zz">>, <<"w1">>, <<"d1">>, JNum(1), JNum(3)),
   RawRec(<<"o1">>, <<>>, <<"d1">>, JNum(1), JNum(3)),
   RawRec(<<"o1">>, <<"w1">>, <<" ">>, JNum(1), JNum(3)),
   RawRec(<<"o1">>, <<"w1">>, <<"d1">>, Undef, JNum(3)),
   RawRec(<<"o1">>, <<"w1">>, <<"d1">>, JNum(1), JNum(0)),
   RawRec(<<"o1">>, <<"w1">>, <<"d1">>, JNum(1), Null),
   RawRec(<<"o1">>, <<"w1">>, <<"d2">>, JNum(1), JStr("Infinity"))}

Batch(recs) == [t |-> "array", v |-> recs]

\* a value of the given type that is no array
NoArray(type) == [t |-> type, v |-> <<>>]

\* req.body?.registros
Registros ==
  {NoArray("undefined"), NoArray("string")}
    \cup {Batch(recs) : recs \in UNION {[1..n -> GoodRecs \cup BadRecs] : n \in 0..MaxBatch}}

\* isUuid on a string of the model
IsUuidStr(str) == Len(str) = 1 /\ isUuid(str[1])

\* lines 1064-1080 without the throws
Normalize(r) ==
  [obra_id |-> Trim(r.obra_id), funcionario_id |-> Trim(r.funcionario_id),
   data |-> Trim(r.data), qtd |-> JsNumber(r.qtd),
   valor_diaria_aplicado |-> JsNumber(r.valor_diaria_aplicado)]

\* the message of the Error the callback of registros.map throws, "" if none
Thrown(r) ==
  LET n == Normalize(r)
  IN IF ~IsUuidStr(n.obra_id) \/ ~IsUuidStr(n.funcionario_id) \/ n.data = <<>>
     THEN "Registro invalido: obra_id/funcionario_id(UUID) e data sao obrigatorios."
     ELSE IF ~IsFinite(n.qtd) THEN "qtd invalido."
     ELSE IF ~IsFinite(n.valor_diaria_aplicado) \/ n.valor_diaria_aplicado.v <= 0
     THEN "valor_diaria_aplicado invalido."
     ELSE ""

LancKey(row) == <<row.obra_id, row.funcionario_id, row.data>>

RECURSIVE InsertAll(_, _, _)
\* Upsert as a plain insert into a table without the unique key
InsertAll(tbl, rows, i) ==
  IF i > Len(rows) THEN tbl
  ELSE InsertAll(tbl \cup {rows[i]}, rows, i + 1)

RECURSIVE Upsert(_, _, _)
\* .upsert(rows, { onConflict: "obra_id,funcionario_id,data" }): a row takes
\* the place of the stored row with its key
Upsert(tbl, rows, i) ==
  IF i > Len(rows) THEN tbl
  ELSE Upsert({r \in tbl : LancKey(r) # LancKey(rows[i])} \cup {rows[i]}, rows, i + 1)

LancReply(status, ok, error) == [status |-> status, ok |-> ok, error |-> error]

NoRequest == [pc |-> "idle", registros |-> NoArray("undefined"), normalized |-> <<>>, res |-> <<>>]

InitLanc ==
  /\ lanc = [tbl |-> {}, before |-> {}, req |-> NoRequest]
  /\ db = NoDb
  /\ pc = "off"
  /\ query = [inicio |-> <<>>, fim |-> <<>>]
  /\ funcList = <<>>
  /\ diarias = <<>>
  /\ empreitas = <<>>
  /\ ajustesRows = <<>>
  /\ map = NewMap
  /\ idx = 0
  /\ out = <<>>
  /\ res = <<>>
  /\ reads = <<>>
  /\ peer = Off /\ auth = Off /\ obra = Off /\ user = Off
  /\ equipe = Off /\ snaps = Off

UnchangedByLanc ==
  UNCHANGED <<db, pc, query, funcList, diarias, empreitas, ajustesRows, map, idx, out, res,
              reads, peer, auth, obra, user, equipe, snaps>>

LancDone(regs, normalized, reply) ==
  [pc |-> "done", registros |-> regs, normalized |-> normalized, res |-> <<reply>>]

\* lines 1055-1061: registros is no array or an empty one
LancNoArray ==
  /\ lanc.req.pc = "idle"
  /\ \E regs \in Registros :
       /\ regs.t # "array" \/ regs.v = <<>>
       /\ lanc' = [lanc EXCEPT !.before = lanc.tbl,
                               !.req = LancDone(regs, <<>>,
                                                LancReply(400, FALSE, "Envie { registros: [...] }"))]
  /\ UnchangedByLanc

\* lines 1063-1081, 1095-1100: the callback throws on the first record that
\* fails a check and the catch block replies with its message
LancInvalid ==
  /\ lanc.req.pc = "idle"
  /\ \E regs \in Registros :
       /\ regs.t = "array"
       /\ \E i \in 1..Len(regs.v) :
            /\ Thrown(regs.v[i]) # ""
            /\ \A j \in 1..(i - 1) : Thrown(regs.v[j]) = ""
            /\ lanc' = [lanc EXCEPT !.before = lanc.tbl,
                                    !.req = LancDone(regs, <<>>,
                                                     LancReply(400, FALSE, Thrown(regs.v[i])))]
  /\ UnchangedByLanc

\* lines 1063-1085: every record passes; the upsert is called
LancUpsert ==
  /\ lanc.req.pc = "idle"
  /\ \E regs \in Registros :
       /\ regs.t = "array" /\ regs.v # <<>>
       /\ \A i \in 1..Len(regs.v) : Thrown(regs.v[i]) = ""
       /\ lanc' = [lanc EXCEPT
                     !.before = lanc.tbl,
                     !.req = [pc |-> "upsert", registros |-> regs,
                              normalized |-> [i \in 1..Len(regs.v) |-> Normalize(regs.v[i])],
                              res |-> <<>>]]
  /\ UnchangedByLanc

\* lines 1083-1094: the store applied the upsert
LancUpsertOk ==
  /\ lanc.req.pc = "upsert"
  /\ lanc' = [lanc EXCEPT !.tbl = Upsert(lanc.tbl, lanc.req.normalized, 1),
                          !.req.pc = "done",
                          !.req.res = <<LancReply(200, TRUE, "")>>]
  /\ UnchangedByLanc

\* lines 1087-1092: the store refused the upsert as a whole
LancUpsertError ==
  /\ lanc.req.pc = "upsert"
  /\ lanc' = [lanc EXCEPT !.req.pc = "done",
                          !.req.res = <<LancReply(500, FALSE, "Erro ao salvar diarias")>>]
  /\ UnchangedByLanc

\* lines 1095-1100: the awaited upsert rejected
LancUpsertThrows ==
  /\ lanc.req.pc = "upsert"
  /\ lanc' = [lanc EXCEPT !.req.pc = "done",
                          !.req.res = <<LancReply(400, FALSE, "Erro ao processar diarias")>>]
  /\ UnchangedByLanc

\* the handler has returned; the next request may come
LancReturn ==
  /\ lanc.req.pc = "done"
  /\ lanc' = [lanc EXCEPT !.before = lanc.tbl, !.req = NoRequest]
  /\ UnchangedByLanc

NextLanc ==
  \/ LancNoArray
  \/ LancInvalid
  \/ LancUpsert
  \/ LancUpsertOk
  \/ LancUpsertError
  \/ LancUpsertThrows
  \/ LancReturn

SpecLanc == InitLanc /\ [][NextLanc]_vars

(***************************************************************************)
(* SpecEquipe: POST /equipe-obra (lines 899-986) and DELETE                *)
(* /equipe-obra/:id (lines 989-1014) on the table equipe_obra.  Two        *)
(* requests are in flight at a time; each runs from one await to the next  *)
(* and the other may run in between.  Rows carry the order of their        *)
(* creation (created_at) in id.                                            *)
(***************************************************************************)
MaxEquipe == 2

Slots == {1, 2}

EquipeBody(obra_id, funcionario_id, valor_diaria, situacao, observacao) ==
  [obra_id |-> obra_id, funcionario_id |-> funcionario_id, valor_diaria |-> valor_diaria,
   situacao |-> situacao, observacao |-> observacao]

\* req.body of POST /equipe-obra
EquipeBodies ==
  {EquipeBody("o1", f, Undef, "undef", "undef") : f \in {"w1", "w2"}}
    \cup {EquipeBody("o1", f, JNum(2), "inativo", "x") : f \in {"w1", "w2"}}
    \cup {EquipeBody("zz", "w1", Undef, "undef", "undef"),
          EquipeBody("o1", "zz", Undef, "undef", "undef"),
          EquipeBody("o1", "w1", JNum(-1), "undef", "undef"),
          EquipeBody("o1", "w1", JStr("abc"), "undef", "undef")}

\* req.params.id of DELETE /equipe-obra/:id: a UUID, of the row created
\* row-th if there is one, or some other text
IdParams ==
  {[uuid |-> TRUE, row |-> k] : k \in 1..MaxEquipe} \cup {[uuid |-> FALSE, row |-> 0]}

\* lines 922-925
ObservacaoOf(body) == IF body.observacao \in {"undef", ""} THEN "null" ELSE body.observacao

\* lines 911-921: valor_diaria is given and is no number or a negative one
ValorInvalido(body) ==
  /\ body.valor_diaria.t \notin {"undefined", "null", ""}
  /\ LET n == JsNumber(body.valor_diaria)
     IN  n.k = "nan" \/ (n.k \in {"num", "inf"} /\ n.v < 0)

EquipeRow(id, obra_id, funcionario_id, situacao, observacao) ==
  [id |-> id, obra_id |-> obra_id, funcionario_id |-> funcionario_id,
   situacao |-> situacao, observacao |-> observacao]

EquipeReply(status, ok, id, updated, error) ==
  [status |-> status, ok |-> ok, id |-> id, updated |-> updated, error |-> error]

NoEquipeBody == EquipeBody("", "", Undef, "undef", "undef")

Idle ==
  [pc |-> "idle", route |-> "", body |-> NoEquipeBody, id |-> [uuid |-> FALSE, row |-> 0],
   found |-> 0, had |-> {}, res |-> <<>>]

InitEquipe ==
  /\ equipe = [tbl |-> {}, removed |-> {}, slot |-> [s \in Slots |-> Idle]]
  /\ db = NoDb
  /\ pc = "off"
  /\ query = [inicio |-> <<>>, fim |-> <<>>]
  /\ funcList = <<>>
  /\ diarias = <<>>
  /\ empreitas = <<>>
  /\ ajustesRows = <<>>
  /\ map = NewMap
  /\ idx = 0
  /\ out = <<>>
  /\ res = <<>>
  /\ reads = <<>>
  /\ peer = Off /\ auth = Off /\ obra = Off /\ user = Off /\ lanc = Off
  /\ snaps = Off

UnchangedByEquipe ==
  UNCHANGED <<db, pc, query, funcList, diarias, empreitas, ajustesRows, map, idx, out, res,
              reads, peer, auth, obra, user, lanc, snaps>>

\* the rows of equipe_obra with this obra_id and funcionario_id
OfPair(tbl, obra_id, funcionario_id) ==
  {r \in tbl : r.obra_id = obra_id /\ r.funcionario_id = funcionario_id}

\* lines 935-941: .order("created_at", { ascending: false }).limit(1)
Newest(rows) == CHOOSE r \in rows : \A q \in rows : q.id <= r.id

EquipeEnd(s, reply) ==
  equipe' = [equipe EXCEPT !.slot[s].pc = "done", !.slot[s].res = <<reply>>]

\* lines 901-921: a body the handler rejects before any call to the store
EquipeInvalid(s) ==
  /\ equipe.slot[s].pc = "idle"
  /\ \E body \in EquipeBodies :
       LET error == IF ~isUuid(body.obra_id) THEN "obra_id invalido (UUID)"
                    ELSE IF ~isUuid(body.funcionario_id) THEN "funcionario_id invalido (UUID)"
                    ELSE IF ValorInvalido(body) THEN "valor_diaria invalido"
                    ELSE ""
       IN  /\ error # ""
           /\ equipe' = [equipe EXCEPT
                           !.slot[s] = [Idle EXCEPT !.pc = "done", !.route = "POST", !.body = body,
                                          !.res = <<EquipeReply(400, FALSE, 0, FALSE, error)>>]]
  /\ UnchangedByEquipe

\* lines 901-941: the body passes and the select of the newest row of the
\* pair is awaited
EquipeSelect(s) ==
  /\ equipe.slot[s].pc = "idle"
  /\ \E body \in EquipeBodies :
       /\ isUuid(body.obra_id) /\ isUuid(body.funcionario_id) /\ ~ValorInvalido(body)
       /\ equipe' = [equipe EXCEPT
                       !.slot[s] = [Idle EXCEPT
                          !.pc = "select", !.route = "POST", !.body = body,
                          !.had = {r.id : r \in {q \in OfPair(equipe.tbl, body.obra_id,
                                                              body.funcionario_id) :
                                                   q.id \in equipe.removed}}]]
  /\ UnchangedByEquipe

\* lines 943-950, 982-985: the select failed
EquipeSelectFailed(s) ==
  /\ equipe.slot[s].pc = "select"
  /\ \E error \in {"Falha ao verificar vinculo", "Erro interno"} :
       EquipeEnd(s, EquipeReply(500, FALSE, 0, FALSE, error))
  /\ UnchangedByEquipe

\* lines 952-957: a row of the pair exists; its update is awaited
EquipeFound(s) ==
  /\ equipe.slot[s].pc = "select"
  /\ LET rows == OfPair(equipe.tbl, equipe.slot[s].body.obra_id,
                        equipe.slot[s].body.funcionario_id)
     IN  /\ rows # {}
         /\ equipe' = [equipe EXCEPT !.slot[s].pc = "update",
                                     !.slot[s].found = Newest(rows).id]
  /\ UnchangedByEquipe

\* lines 952, 967-973: no row of the pair exists; the insert is awaited
EquipeNotFound(s) ==
  /\ equipe.slot[s].pc = "select"
  /\ OfPair(equipe.tbl, equipe.slot[s].body.obra_id, equipe.slot[s].body.funcionario_id) = {}
  /\ equipe' = [equipe EXCEPT !.slot[s].pc = "insert"]
  /\ UnchangedByEquipe

\* lines 953-965: the store updated situacao and observacao of the row found
EquipeUpdated(s) ==
  /\ equipe.slot[s].pc = "update"
  /\ LET req == equipe.slot[s]
     IN  equipe' = [equipe EXCEPT
           !.tbl = {IF r.id = req.found
                    THEN [r EXCEPT !.situacao = normSituacao(req.body.situacao, "ativo"),
                                   !.observacao = ObservacaoOf(req.body)]
                    ELSE r : r \in equipe.tbl},
           !.slot[s].pc = "done",
           !.slot[s].res = <<EquipeReply(200, TRUE, req.found, TRUE, "")>>]
  /\ UnchangedByEquipe

\* lines 958-963, 982-985: the update failed
EquipeUpdateFailed(s) ==
  /\ equipe.slot[s].pc = "update"
  /\ \E error \in {"Falha ao atualizar vinculo", "Erro interno"} :
       EquipeEnd(s, EquipeReply(500, FALSE, 0, FALSE, error))
  /\ UnchangedByEquipe

\* lines 967-981: the store inserted the row and returned its id
EquipeInserted(s) ==
  /\ equipe.slot[s].pc = "insert"
  /\ Cardinality(equipe.tbl) < MaxEquipe
  /\ LET req == equipe.slot[s]
         id == Cardinality(equipe.tbl) + 1
     IN  equipe' = [equipe EXCEPT
           !.tbl = @ \cup {EquipeRow(id, req.body.obra_id, req.body.funcionario_id,
                                     normSituacao(req.body.situacao, "ativo"),
                                     ObservacaoOf(req.body))},
           !.slot[s].pc = "done",
           !.slot[s].res = <<EquipeReply(201, TRUE, id, FALSE, "")>>]
  /\ UnchangedByEquipe

\* lines 974-979, 982-985: the insert failed
EquipeInsertFailed(s) ==
  /\ equipe.slot[s].pc = "insert"
  /\ \E error \in {"Falha ao criar vinculo", "Erro interno"} :
       EquipeEnd(s, EquipeReply(500, FALSE, 0, FALSE, error))
  /\ UnchangedByEquipe

\* lines 991-994: DELETE with an id that is no UUID
RemoveInvalid(s) ==
  /\ equipe.slot[s].pc = "idle"
  /\ \E id \in IdParams :
       /\ ~id.uuid
       /\ equipe' = [equipe EXCEPT
                       !.slot[s] = [Idle EXCEPT !.pc = "done", !.route = "DELETE", !.id = id,
                                      !.res = <<EquipeReply(400, FALSE, 0, FALSE,
                                                            "id invalido (UUID)")>>]]
  /\ UnchangedByEquipe

\* lines 991-999: the update to 'inativo' is awaited
RemoveIssue(s) ==
  /\ equipe.slot[s].pc = "idle"
  /\ \E id \in IdParams :
       /\ id.uuid
       /\ equipe' = [equipe EXCEPT
                       !.slot[s] = [Idle EXCEPT !.pc = "inactivate", !.route = "DELETE",
                                                !.id = id]]
  /\ UnchangedByEquipe

\* lines 996-1009: the store set situacao of the row with this id
Removed(s) ==
  /\ equipe.slot[s].pc = "inactivate"
  /\ LET id == equipe.slot[s].id.row
     IN  equipe' = [equipe EXCEPT
           !.tbl = {IF r.id = id THEN [r EXCEPT !.situacao = "inativo"] ELSE r
                      : r \in equipe.tbl},
           !.removed = @ \cup {r.id : r \in {q \in equipe.tbl : q.id = id}},
           !.slot[s].pc = "done",
           !.slot[s].res = <<EquipeReply(200, TRUE, 0, FALSE, "")>>]
  /\ UnchangedByEquipe

\* lines 1001-1006, 1010-1013: the update failed
RemoveFailed(s) ==
  /\ equipe.slot[s].pc = "inactivate"
  /\ \E error \in {"Falha ao remover vinculo", "Erro interno"} :
       EquipeEnd(s, EquipeReply(500, FALSE, 0, FALSE, error))
  /\ UnchangedByEquipe

\* the handler has returned; the next request may come
EquipeReturn(s) ==
  /\ equipe.slot[s].pc = "done"
  /\ equipe' = [equipe EXCEPT !.slot[s] = Idle]
  /\ UnchangedByEquipe

NextEquipe ==
  \E s \in Slots :
    \/ EquipeInvalid(s)
    \/ EquipeSelect(s)
    \/ EquipeSelectFailed(s)
    \/ EquipeFound(s)
    \/ EquipeNotFound(s)
    \/ EquipeUpdated(s)
    \/ EquipeUpdateFailed(s)
    \/ EquipeInserted(s)
    \/ EquipeInsertFailed(s)
    \/ RemoveInvalid(s)
    \/ RemoveIssue(s)
    \/ Removed(s)
    \/ RemoveFailed(s)
    \/ EquipeReturn(s)

SpecEquipe == InitEquipe /\ [][NextEquipe]_vars

(***************************************************************************)
(* SpecContas: PATCH /usuarios/:id (lines 316-397) and DELETE              *)
(* /usuarios/:id (lines 400-434) next to POST /usuarios, one request after *)
(* the other.  A column of cadastro_user or an attribute of an account is  *)
(* what the last applied call wrote.                                       *)
(***************************************************************************)
PatchBody(nome, nivel_acesso, situacao, observacao, email, senha) ==
  [nome |-> nome, nivel_acesso |-> nivel_acesso, situacao |-> situacao,
   observacao |-> observacao, email |-> email, senha |-> senha]

\* req.body of PATCH /usuarios/:id
PatchBodies ==
  {PatchBody(Given(<<"B", " ">>), "admin", "inativo", "x", Absent, senha) :
     senha \in {Absent, Given(Chars(MinSenha - 1))}}
    \cup {PatchBody(Absent, "undef", "undef", "undef", email, senha) :
            email \in {Absent, Given(<<"c">>)},
            senha \in {Absent, Given(<<" ">>), Given(Chars(MinSenha - 1)),
                       Given(Chars(MinSenha + 1))}}

\* lines 320-336, 348: the columns the request writes to cadastro_user
PatchOf(body) ==
  [nome |-> IF body.nome = Absent THEN Absent ELSE Given(Trim(body.nome.v)),
   nivel_acesso |-> body.nivel_acesso,
   situacao |-> IF body.situacao = "undef" THEN "undef"
                ELSE normSituacao(body.situacao, "ativo"),
   observacao |-> IF body.observacao = "undef" THEN "undef"
                  ELSE IF body.observacao = "" THEN "null" ELSE body.observacao,
   email |-> IF Trim(body.email.v) = <<>> THEN Absent ELSE Given(Trim(body.email.v))]

\* lines 338-346: novoEmail and novaSenha, <<>> when null or empty
novoEmail(body) == Trim(body.email.v)
novaSenha(body) == Trim(body.senha.v)

\* Object.keys(patch).length > 0
PatchHasKeys(body) ==
  LET patch == PatchOf(body)
  IN  \/ patch.nome # Absent
      \/ patch.nivel_acesso # "undef"
      \/ patch.situacao # "undef"
      \/ patch.observacao # "undef"
      \/ patch.email # Absent

\* .update(patch) on one row
PatchedRow(r, patch) ==
  [id |-> r.id,
   nome |-> IF patch.nome = Absent THEN r.nome ELSE patch.nome.v,
   email |-> IF patch.email = Absent THEN r.email ELSE patch.email.v,
   nivel_acesso |-> IF patch.nivel_acesso = "undef" THEN r.nivel_acesso
                    ELSE patch.nivel_acesso,
   situacao |-> IF patch.situacao = "undef" THEN r.situacao ELSE patch.situacao,
   observacao |-> IF patch.observacao = "undef" THEN r.observacao ELSE patch.observacao]

\* updateUserById(id, payloadAuth) on one account
PatchedAccount(a, body) ==
  [id |-> a.id,
   email |-> IF novoEmail(body) = <<>> THEN a.email ELSE novoEmail(body),
   senha |-> IF novaSenha(body) = <<>> THEN a.senha ELSE novaSenha(body)]

ContaReply(status, ok, warning) ==
  [status |-> status, ok |-> ok, id |-> 0, warning |-> warning]

\* lines 362-392: the handler past the update of cadastro_user
PatchAuth(u) ==
  IF novoEmail(u.patch) = <<>> /\ novaSenha(u.patch) = <<>>
  THEN UsuarioDone(u, ContaReply(200, TRUE, FALSE))
  ELSE IF novaSenha(u.patch) # <<>> /\ Len(novaSenha(u.patch)) < MinSenha
  THEN UsuarioDone(u, ContaReply(400, FALSE, FALSE))
  ELSE [u EXCEPT !.pc = "updateUserById",
                 !.calls = Append(@, Call("updateUserById", u.id, "pending"))]

\* a request arrives
Arrives(route, id, body) ==
  [user EXCEPT !.route = route, !.id = id, !.patch = body,
               !.body = [nome |-> <<>>, email |-> <<>>, senha |-> <<>>],
               !.newAuthId = 0, !.calls = <<>>, !.res = <<>>,
               !.before = Contas(user)]

\* lines 318-361: PATCH with columns for cadastro_user; the update is called
PatchUsuario ==
  /\ user.pc \in {"idle", "done"}
  /\ \E id \in 1..MaxUsers, body \in PatchBodies :
       /\ PatchHasKeys(body)
       /\ user' = [Arrives("PATCH", id, body) EXCEPT
                     !.pc = "update", !.calls = <<Call("update", id, "pending")>>]
  /\ UnchangedByUsuarios

\* lines 318-392: PATCH with no column for cadastro_user
PatchUsuarioNoKeys ==
  /\ user.pc \in {"idle", "done"}
  /\ \E id \in 1..MaxUsers, body \in PatchBodies :
       /\ ~PatchHasKeys(body)
       /\ user' = PatchAuth(Arrives("PATCH", id, body))
  /\ UnchangedByUsuarios

\* lines 350-392: the store updated the row with this id, if there is one
PatchRowOk ==
  /\ user.pc = "update"
  /\ user' = PatchAuth(
       [user EXCEPT !.rows = {IF r.id = user.id THEN PatchedRow(r, PatchOf(user.patch)) ELSE r
                                : r \in user.rows},
                    !.calls = Answered("data")])
  /\ UnchangedByUsuarios

\* lines 355-360: upErr
PatchRowError ==
  /\ user.pc = "update"
  /\ user' = UsuarioDone([user EXCEPT !.calls = Answered("error")],
                         ContaReply(500, FALSE, FALSE))
  /\ UnchangedByUsuarios

\* lines 375-392: the service updated the account with this id; it keeps
\* the emails of the accounts distinct
PatchAuthOk ==
  /\ user.pc = "updateUserById"
  /\ \E a \in user.accounts : a.id = user.id
  /\ \A a \in user.accounts : a.id # user.id => a.email # novoEmail(user.patch)
  /\ user' = UsuarioDone(
       [user EXCEPT !.accounts = {IF a.id = user.id THEN PatchedAccount(a, user.patch) ELSE a
                                    : a \in user.accounts},
                    !.calls = Answered("data")],
       ContaReply(200, TRUE, FALSE))
  /\ UnchangedByUsuarios

\* lines 380-386: authErr; the reply is ok:true with a warning
PatchAuthError ==
  /\ user.pc = "updateUserById"
  /\ user' = UsuarioDone([user EXCEPT !.calls = Answered("error")],
                         ContaReply(200, TRUE, TRUE))
  /\ UnchangedByUsuarios

\* lines 402-408: DELETE; the delete on cadastro_user is called
DeleteUsuario ==
  /\ user.pc \in {"idle", "done"}
  /\ \E id \in 1..MaxUsers :
       user' = [Arrives("DELETE", id, NoPatch) EXCEPT
                  !.pc = "delete", !.calls = <<Call("delete", id, "pending")>>]
  /\ UnchangedByUsuarios

\* lines 405-420: the store deleted the row with this id, if there was one;
\* deleteUser is called
DeleteRowOk ==
  /\ user.pc = "delete"
  /\ user' = [user EXCEPT !.rows = {r \in @ : r.id # user.id},
                          !.calls = Append(Answered("data"),
                                           Call("deleteUser", user.id, "pending")),
                          !.pc = "deleteAuth"]
  /\ UnchangedByUsuarios

\* lines 410-418: delRowErr
DeleteRowError ==
  /\ user.pc = "delete"
  /\ user' = UsuarioDone([user EXCEPT !.calls = Answered("error")],
                         ContaReply(500, FALSE, FALSE))
  /\ UnchangedByUsuarios

\* lines 420, 430: the service deleted the account
DeleteAuthOk ==
  /\ user.pc = "deleteAuth"
  /\ user' = UsuarioDone([user EXCEPT !.accounts = {a \in @ : a.id # user.id},
                                      !.calls = Answered("data")],
                         ContaReply(200, TRUE, FALSE))
  /\ UnchangedByUsuarios

\* DeleteAuthError replying as if the account were deleted
DeleteAuthErrorSilent ==
  /\ user.pc = "deleteAuth"
  /\ user' = UsuarioDone([user EXCEPT !.calls = Answered("error")],
                         ContaReply(200, TRUE, FALSE))
  /\ UnchangedByUsuarios

\* lines 422-428: delAuthErr; the reply is ok:true with a warning
DeleteAuthError ==
  /\ user.pc = "deleteAuth"
  /\ user' = UsuarioDone([user EXCEPT !.calls = Answered("error")],
                         ContaReply(200, TRUE, TRUE))
  /\ UnchangedByUsuarios

\* lines 393-396, 431-434: an awaited call of PATCH or DELETE rejected
ContaThrows ==
  /\ user.pc \in {"update", "updateUserById", "delete", "deleteAuth"}
  /\ user' = UsuarioDone([user EXCEPT !.calls = Answered("threw")],
                         ContaReply(500, FALSE, FALSE))
  /\ UnchangedByUsuarios

NextContas ==
  \/ NextUsuarios
  \/ PatchUsuario
  \/ PatchUsuarioNoKeys
  \/ PatchRowOk
  \/ PatchRowError
  \/ PatchAuthOk
  \/ PatchAuthError
  \/ DeleteUsuario
  \/ DeleteRowOk
  \/ DeleteRowError
  \/ DeleteAuthOk
  \/ DeleteAuthError
  \/ ContaThrows

SpecContas == InitUsuarios /\ [][NextContas]_vars

(***************************************************************************)
(* SpecWrites: one request on GET /relatorios/pagamento while other        *)
(* requests write to the four tables it reads.  A write is applied by the  *)
(* store in one step, between two steps of the report handler; snaps.seen  *)
(* lists the states of the store from the request's start on.              *)
(***************************************************************************)
MaxWrites == 2

InitWrites ==
  /\ \E fs \in SUBSET {Ana, Bia} :
     \E ds \in {<<>>, <<DailyRow(<<"w1", 2>>, JNum(2), JNum(3))>>} :
     \E as \in {<<>>, <<AdjustRow("w2", JNum(4), JNum(1))>>} :
       db = [cadastro_func |-> fs, lanc_diarias |-> ds, empreitas |-> <<>>,
             lanc_diarias_ajustes |-> as]
  /\ snaps = [seen |-> <<db>>]
  /\ pc = "start"
  /\ query \in {[inicio |-> <<1>>, fim |-> <<2>>], [inicio |-> <<>>, fim |-> <<2>>]}
  /\ funcList = <<>>
  /\ diarias = <<>>
  /\ empreitas = <<>>
  /\ ajustesRows = <<>>
  /\ map = NewMap
  /\ idx = 0
  /\ out = <<>>
  /\ res = <<>>
  /\ reads = <<>>
  /\ peer = Off /\ auth = Off /\ obra = Off /\ user = Off /\ lanc = Off
  /\ equipe = Off

\* the store applies a write of another request before this one has replied
Wrote(d) ==
  /\ pc # "done"
  /\ Len(snaps.seen) <= MaxWrites
  /\ d # db
  /\ db' = d
  /\ snaps' = [seen |-> Append(snaps.seen, d)]
  /\ UNCHANGED <<pc, query, funcList, diarias, empreitas, ajustesRows, map, idx, out, res,
                 reads, peer, auth, obra, user, lanc, equipe>>

\* POST /lanc-diarias, lines 1083-1085: upsert of one row on its key
WriteDiaria ==
  \E row \in {DailyRow(<<"w1", 1>>, JNum(2), JNum(3))} :
    Wrote([db EXCEPT !.lanc_diarias =
             SelectSeq(@, LAMBDA r : <<r.funcionario_id, r.data>> # <<row.funcionario_id, row.data>>)
               \o <<row>>])

\* POST /empreitas, lines 1409-1411: insert of one row
WriteEmpreita ==
  \E row \in {PieceRow(<<"w1", 1>>, JNum(5))} :
    /\ Len(db.empreitas) < MaxWrites
    /\ Wrote([db EXCEPT !.empreitas = Append(@, row)])

\* POST /diarias-ajustes, lines 1195-1197: upsert of one row on its key
WriteAjuste ==
  \E row \in {AdjustRow("w1", JNum(4), JNum(1))} :
    Wrote([db EXCEPT !.lanc_diarias_ajustes =
             SelectSeq(@, LAMBDA r : <<r.funcionario_id, r.data_inicio>>
                                       # <<row.funcionario_id, row.data_inicio>>)
               \o <<row>>])

\* DELETE /funcionarios/:id, lines 840-843
DeleteFuncionario ==
  \E f \in db.cadastro_func : Wrote([db EXCEPT !.cadastro_func = @ \ {f}])

NextWrites ==
  \/ Next
  \/ WriteDiaria
  \/ WriteEmpreita
  \/ WriteAjuste
  \/ DeleteFuncionario

SpecWrites == InitWrites /\ [][NextWrites]_vars

(***************************************************************************)
(* C11-C13: validation, the empty roster and the window of the reads.      *)
(***************************************************************************)
BadQueryReply == Reply(400, FALSE, FALSE, "Informe inicio e fim no formato YYYY-MM-DD")

\* C11: a request whose inicio or fim is missing or blank issues none of the
\* four reads and aggregates nothing; its only reply is the 400.
C11_BlankBoundRejectedBeforeReads ==
  (query.inicio = <<>> \/ query.fim = <<>>) =>
    /\ reads = <<>>
    /\ map = NewMap /\ idx = 0 /\ out = <<>>
    /\ funcList = <<>> /\ diarias = <<>> /\ empreitas = <<>> /\ ajustesRows = <<>>
    /\ pc \in {"start", "done"}
    /\ res = IF pc = "done" THEN <<BadQueryReply>> ELSE <<>>

C11_Witness ==
  /\ query.inicio # <<>> /\ query.fim = <<>>
  /\ db.cadastro_func # {} /\ db.lanc_diarias # <<>>
  /\ pc = "done"
  /\ res = <<BadQueryReply>>

\* C12: when the read of cadastro_func succeeds with no worker, the reply is
\* the success with the empty sequence and no fact read is issued.
C12_EmptyRosterShortCircuits ==
  (reads # <<>> /\ reads[1].outcome = "data" /\ db.cadastro_func = {}) =>
    /\ reads = <<[table |-> "cadastro_func", outcome |-> "data"]>>
    /\ pc = "done"
    /\ out = <<>>
    /\ res = <<Reply(200, TRUE, TRUE, "")>>

C12_Witness ==
  /\ db.cadastro_func = {}
  /\ db.lanc_diarias # <<>> /\ db.empreitas # <<>> /\ db.lanc_diarias_ajustes # <<>>
  /\ reads = <<[table |-> "cadastro_func", outcome |-> "data"]>>
  /\ pc = "done"
  /\ res = <<Reply(200, TRUE, TRUE, "")>>

\* a date neither before inicio nor after fim
Inclusive(date) == ~(date < query.inicio[1]) /\ ~(query.fim[1] < date)

Succeeded == pc = "done" /\ res = <<Reply(200, TRUE, TRUE, "")>> /\ funcList # <<>>

\* C13: a finished report has read, of each fact kind, exactly the roster's
\* rows whose own date field (data, data_pagamento, data_inicio) lies in
\* [inicio, fim], both ends included.
C13_WindowInclusiveBothEnds ==
  Succeeded =>
    /\ diarias = SelectSeq(db.lanc_diarias,
          LAMBDA r : r.funcionario_id \in RosterIds /\ Inclusive(r.data))
    /\ empreitas = SelectSeq(db.empreitas,
          LAMBDA r : r.funcionario_id \in RosterIds /\ Inclusive(r.data_pagamento))
    /\ ajustesRows = SelectSeq(db.lanc_diarias_ajustes,
          LAMBDA r : r.funcionario_id \in RosterIds /\ Inclusive(r.data_inicio))
    /\ \A i \in 1..Len(out) : \A d \in Dates :
          d \in DOMAIN out[i].dias <=>
            /\ Inclusive(d)
            /\ \/ \E j \in 1..Len(db.lanc_diarias) :
                    db.lanc_diarias[j].funcionario_id = out[i].funcionario.id
                      /\ db.lanc_diarias[j].data = d
               \/ \E j \in 1..Len(db.empreitas) :
                    db.empreitas[j].funcionario_id = out[i].funcionario.id
                      /\ db.empreitas[j].data_pagamento = d

\* a window of one day: the rows on that day, which is both inicio and fim,
\* are read and the row of the day before is not
C13_Witness ==
  /\ Succeeded
  /\ query = [inicio |-> <<2>>, fim |-> <<2>>]
  /\ Len(db.lanc_diarias) = 2 /\ Len(diarias) = 1 /\ diarias[1].data = 2
  /\ Len(ajustesRows) = 1 /\ ajustesRows[1].data_inicio = 2

(***************************************************************************)
(* C19: the adjustment totals.                                             *)
(***************************************************************************)
\* C19: in the finished report a worker's total_reembolso and
\* total_adiantamento are the sums of reembolso and of adiantamento over all
\* adjustment rows of that worker, a null or non-finite field counting as 0.
C19_AdjustmentTotalsAreSums ==
  pc = "done" =>
    \A i \in 1..Len(out) :
      LET rows == RowsOf(ajustesRows, out[i].funcionario.id)
      IN /\ out[i].total_reembolso = Num(AdjustSum(rows, "reembolso", 1))
         /\ out[i].total_adiantamento = Num(AdjustSum(rows, "adiantamento", 1))

\* two finite rows and the row with NaN and Infinity, all of one worker
C19_Witness ==
  /\ pc = "done"
  /\ \E i \in 1..Len(out) :
       /\ out[i].funcionario.id = "w1"
       /\ Len(RowsOf(ajustesRows, "w1")) = MaxRows
       /\ \E j \in 1..Len(ajustesRows) : ajustesRows[j].reembolso = JStr("NaN")
       /\ \E j \in 1..Len(ajustesRows) : ajustesRows[j].reembolso = Null
       /\ out[i].total_reembolso = Num(4)
       /\ out[i].total_adiantamento = Num(8)

(***************************************************************************)
(* C14, C15: requests share nothing.                                       *)
(***************************************************************************)
OkReply == Reply(200, TRUE, TRUE, "")

\* the report of a request that ran alone on the read results r holds
Alone(r) ==
  IF r.funcList = <<>> THEN <<>>
  ELSE Aggregate(r.funcList, r.diarias, r.empreitas, r.ajustesRows)

\* C14: whatever the interleaving of two requests at their awaits, and
\* whichever of them finished first, a successful request replies once and
\* its report is the one it would build alone from its own read results.
C14_RequestsShareNoAccumulator ==
  \A r \in {Locals, peer} :
    (r.pc = "done" /\ r.reads # <<>> /\ r.reads[Len(r.reads)].outcome = "data") =>
      /\ r.res = <<OkReply>>
      /\ r.out = Alone(r)

\* the running request finishes a report with pay in it while the other one,
\* which asked for another window, waits for its piece-work rows with daily
\* rows already read
C14_Witness ==
  /\ pc = "done" /\ res = <<OkReply>>
  /\ diarias # <<>> /\ ajustesRows # <<>>
  /\ peer.pc = "awaitEmpreitas"
  /\ peer.diarias # <<>>
  /\ peer.query # query

C16_RequireAuthGuardsHandler ==
  /\ auth.nexts <= 1
  /\ ~(auth.sent # <<>> /\ auth.nexts > 0)
  /\ auth.nexts = 0 => (pc = "gate" /\ reads = <<>> /\ res = <<>>)
  /\ auth.nexts = 1 =>
       /\ Len(auth.header) = 2 /\ auth.header[1] = "Bearer "
       /\ auth.verdict = "user"
       /\ auth.authUser = TokenUser[auth.header[2]]
  /\ pc # "gate" => auth.nexts = 1
  /\ auth.pc = "sent" =>
       /\ auth.nexts = 0
       /\ Len(auth.sent) = 1
       /\ auth.sent[1].status = IF auth.verdict = "threw" THEN 500 ELSE 401

\* a verified request whose handler read the store and replied
C16_Witness ==
  /\ auth.pc = "next" /\ auth.authUser = "u2" /\ auth.sent = <<>>
  /\ pc = "done" /\ res = <<OkReply>> /\ Len(reads) = 4

(***************************************************************************)
(* C17: the routes GET, PATCH and DELETE /obras[/:id] are scoped to the    *)
(* caller.                                                                 *)
(***************************************************************************)
\* rows of another user than the caller of the last request, before it
OthersRows == {r \in obra.before : r.responsavel # obra.req.caller}

\* C17: after any sequence of requests, GET /obras has returned the caller's
\* rows and no other, GET /obras/:id a row of the caller with that id or
\* none, and PATCH /obras/:id and DELETE /obras/:id have left every row of
\* another user in the table as it was.
C17_ObraRoutesScopedToCaller ==
  /\ (obra.req.route = "GET /obras" /\ obra.res.ok) =>
       /\ \A i \in 1..Len(obra.res.data) : obra.res.data[i].responsavel = obra.req.caller
       /\ {obra.res.data[i] : i \in 1..Len(obra.res.data)} = obra.tbl \ OthersRows
  /\ (obra.req.route = "GET /obras/:id" /\ obra.res.ok) =>
       /\ obra.res.data.responsavel = obra.req.caller
       /\ obra.res.data.id = obra.req.id
       /\ obra.res.data \in obra.tbl
  /\ (obra.req.route = "GET /obras/:id" /\ ~obra.res.ok) => obra.res.data = "none"
  /\ obra.req.route \in {"PATCH /obras/:id", "DELETE /obras/:id"} =>
       OthersRows \subseteq obra.tbl

\* u1 patched the id of a row of u2 and was told ok; the row is as it was
C17_Witness ==
  /\ obra.req.route = "PATCH /obras/:id"
  /\ obra.req.caller = "u1"
  /\ obra.res = ObraReply(200, TRUE, "none")
  /\ \E r \in obra.tbl : r.id = obra.req.id /\ r.responsavel = "u2"
                           /\ r.nome # obra.req.body.nome
  /\ obra.tbl = obra.before

(***************************************************************************)
(* C18: the rollback of POST /usuarios.                                    *)
(***************************************************************************)
\* the calls of the current request of the given kind and outcome
Called(op, outcome) ==
  {i \in 1..Len(user.calls) : user.calls[i].op = op /\ user.calls[i].outcome = outcome}

LancBad(r) ==
  \/ Trim(r.obra_id) \notin {<<u>> : u \in Uuids}
  \/ Trim(r.funcionario_id) \notin {<<u>> : u \in Uuids}
  \/ Trim(r.data) = <<>>
  \/ JsNumber(r.qtd) \in {NaN, PosInf, NegInf}
  \/ JsNumber(r.valor_diaria_aplicado) \in {NaN, PosInf, NegInf}
  \/ JsNumber(r.valor_diaria_aplicado).v <= 0

\* registros is no non-empty array or holds an invalid record
LancBadBody(regs) ==
  \/ regs.t # "array"
  \/ regs.v = <<>>
  \/ \E i \in 1..Len(regs.v) : LancBad(regs.v[i])

\* the rows of the batch that no later row of the batch has the key of
LastOfKey(rows) ==
  {rows[i] : i \in {j \in 1..Len(rows) :
                     \A k \in (j + 1)..Len(rows) : LancKey(rows[k]) # LancKey(rows[j])}}

BatchKeys(rows) == {LancKey(rows[i]) : i \in 1..Len(rows)}

\* C20: a request whose registros is no non-empty array or holds an invalid
\* record is answered 400 without an upsert, and no 400 or 500 changes the
\* table; for any other request one upsert of all its records is issued,
\* and when it succeeds the table holds each record under its key (obra_id,
\* funcionario_id, data) and its other rows are as before. The table never
\* holds two rows of one key, and a batch whose rows the table already holds
\* leaves it unchanged.
C20_LancDiariasAllOrNothing ==
  /\ \A r1 \in lanc.tbl : \A r2 \in lanc.tbl : LancKey(r1) = LancKey(r2) => r1 = r2
  /\ lanc.req.pc = "done" =>
       LET regs == lanc.req.registros
           rows == lanc.req.normalized
           status == lanc.req.res[1].status
       IN /\ Len(lanc.req.res) = 1
          /\ LancBadBody(regs) => (status = 400 /\ rows = <<>>)
          /\ status \in {400, 500} => lanc.tbl = lanc.before
          /\ ~LancBadBody(regs) =>
               /\ Len(rows) = Len(regs.v)
               /\ \A i \in 1..Len(rows) :
                    /\ LancKey(rows[i]) =
                         <<Trim(regs.v[i].obra_id), Trim(regs.v[i].funcionario_id),
                           Trim(regs.v[i].data)>>
                    /\ rows[i].qtd = JsNumber(regs.v[i].qtd)
                    /\ rows[i].valor_diaria_aplicado =
                         JsNumber(regs.v[i].valor_diaria_aplicado)
          /\ status = 200 =>
               /\ ~LancBadBody(regs)
               /\ LastOfKey(rows) \subseteq lanc.tbl
               /\ {r \in lanc.tbl : LancKey(r) \notin BatchKeys(rows)}
                    = {r \in lanc.before : LancKey(r) \notin BatchKeys(rows)}
               /\ LastOfKey(rows) \subseteq lanc.before => lanc.tbl = lanc.before

\* a batch of two keys is stored over a table that held another row under
\* one of them: that row is replaced, the other key is added
C20_Witness ==
  /\ lanc.req.pc = "done"
  /\ lanc.req.res = <<LancReply(200, TRUE, "")>>
  /\ Cardinality(BatchKeys(lanc.req.normalized)) = 2
  /\ Cardinality(lanc.before) = 1
  /\ Cardinality(lanc.tbl) = 2
  /\ lanc.before \cap lanc.tbl = {}

(***************************************************************************)
(* C21: who sets responsavel.                                              *)
(***************************************************************************)
\* what GET /obras answers the caller of the last request on the table as it is
MinhasObras == ByNomeThenId({r \in obra.tbl : r.responsavel = obra.req.caller})

\* C21: a row created by POST /obras has the caller as responsavel whatever
\* the body says, and GET /obras shows it to the caller; a request on any
\* route but POST /obras/admin and PATCH /obras/admin/:id leaves the
\* responsavel of every row it keeps as it was and gives a new row no
\* responsavel but the caller.
C21_PostObrasBindsCaller ==
  /\ (obra.req.route = "POST /obras" /\ obra.res.status = 201) =>
       \E r \in obra.tbl :
         /\ r.id = obra.res.data.id
         /\ r.responsavel = obra.req.caller
         /\ \A q \in obra.before : q.id # r.id
         /\ \E i \in 1..Len(MinhasObras) : MinhasObras[i] = r
  /\ obra.req.route \notin {"POST /obras/admin", "PATCH /obras/admin/:id"} =>
       \A r \in obra.tbl :
         \/ \E q \in obra.before : q.id = r.id /\ q.responsavel = r.responsavel
         \/ (\A q \in obra.before : q.id # r.id) /\ r.responsavel = obra.req.caller

\* u1 posts an obra whose body names u2 as responsavel; the row is u1's
C21_Witness ==
  /\ obra.req.route = "POST /obras"
  /\ obra.req.caller = "u1"
  /\ obra.req.body.responsavel = "u2"
  /\ obra.res.status = 201
  /\ \E r \in obra.tbl : r.id = obra.res.data.id /\ r.responsavel = "u1"
(***************************************************************************)
(* C22, C24: equipe_obra under POST and DELETE /equipe-obra.               *)
(***************************************************************************)
SamePair(r, q) == r.obra_id = q.obra_id /\ r.funcionario_id = q.funcionario_id

\* C24: whatever the interleaving of the POST /equipe-obra requests, once
\* they have replied equipe_obra holds at most one row for each pair
\* (obra_id, funcionario_id).
C24_OneRowPerPair ==
  (\A s \in Slots : equipe.slot[s].pc \in {"idle", "done"}) =>
    \A r, q \in equipe.tbl : SamePair(r, q) => r = q

\* a step of the store answering a DELETE /equipe-obra/:id
RemovedStep(s) ==
  /\ equipe.slot[s].pc = "inactivate"
  /\ equipe'.slot[s].pc = "done"
  /\ equipe'.slot[s].res[1].ok

\* DELETE /equipe-obra/:id removes no row and changes nothing but situacao
\* of the row with its id, which becomes 'inativo'
SoftDelete ==
  \A s \in Slots :
    RemovedStep(s) =>
      /\ {r.id : r \in equipe'.tbl} = {r.id : r \in equipe.tbl}
      /\ \A r \in equipe.tbl :
           IF r.id = equipe.slot[s].id.row
           THEN [r EXCEPT !.situacao = "inativo"] \in equipe'.tbl
           ELSE r \in equipe'.tbl

\* a POST /equipe-obra that came after a DELETE of a row of its pair and
\* succeeded has updated that row, replying updated:true, and inserted none
PostAfterRemoveUpdates ==
  \A s \in Slots :
    LET req == equipe.slot[s]
    IN  (req.route = "POST" /\ req.pc = "done" /\ req.res[1].ok /\ req.had # {}) =>
          /\ req.res[1].updated
          /\ req.res[1].status = 200
          /\ req.res[1].id \in req.had

\* C22: DELETE /equipe-obra/:id is a soft delete (no row removed, only
\* situacao of the row with that id set to 'inativo', every other field and
\* row unchanged), and a later POST /equipe-obra for the same pair updates
\* that existing row, replying updated:true, instead of inserting a second.
C22_SoftDeleteThenPostUpdates == [][SoftDelete]_vars /\ []PostAfterRemoveUpdates
(***************************************************************************)
(* C23, C26: cadastro_user and the Auth accounts under POST, PATCH and     *)
(* DELETE /usuarios.                                                       *)
(***************************************************************************)
\* C23: when PATCH /usuarios/:id replies 400 because the new password is
\* shorter than 6 characters, cadastro_user and the Auth accounts are what
\* they were when the request arrived, whatever else the body carries.
C23_ShortSenhaChangesNothing ==
  (user.route = "PATCH" /\ user.pc = "done" /\ user.res = <<ContaReply(400, FALSE, FALSE)>>) =>
    Contas(user) = user.before

Ids(set) == {x.id : x \in set}

AtRest == user.pc \in {"idle", "done"}

\* every call of the current request was answered with data
NoCallFailed == \A i \in 1..Len(user.calls) : user.calls[i].outcome = "data"

DeleteOk == user.route = "DELETE" /\ user.pc = "done" /\ user.res[1].ok

ReportOf(d) ==
  LET fl == FuncionariosIn(d)
  IN  Aggregate(fl, DiariasIn(d, FuncIds(fl)), EmpreitasIn(d, FuncIds(fl)),
                AjustesIn(d, FuncIds(fl)))

Reported == pc = "done" /\ res = <<Reply(200, TRUE, TRUE, "")>>

\* C25 as stated: a successful report is the aggregation of one state the
\* store was in between the request's start and its response.
C25_ReportIsSnapshot ==
  Reported => \E i \in 1..Len(snaps.seen) : out = ReportOf(snaps.seen[i])

\* C25 (amended): each of the four reads returns the rows of a state the
\* store was in between the request's start and its response, the states
\* of later reads being no older than those of earlier ones, and a
\* successful report is the aggregation of these four results; the four
\* states may differ.
C25_ReportOfFourReads ==
  Reported =>
    \E i1 \in 1..Len(snaps.seen) : \E i2 \in i1..Len(snaps.seen) :
    \E i3 \in i2..Len(snaps.seen) : \E i4 \in i3..Len(snaps.seen) :
      LET fl == FuncionariosIn(snaps.seen[i1])
      IN  out = Aggregate(fl, DiariasIn(snaps.seen[i2], FuncIds(fl)),
                          EmpreitasIn(snaps.seen[i3], FuncIds(fl)),
                          AjustesIn(snaps.seen[i4], FuncIds(fl)))

\* a report that counts a piece-work row but not the daily row written
\* before it: it is the report of no state of the store
C25_Witness ==
  /\ Reported
  /\ Len(snaps.seen) = 3
  /\ \A i \in 1..Len(snaps.seen) : out # ReportOf(snaps.seen[i])
  /\ diarias = <<>> /\ empreitas # <<>>
(***************************************************************************)
(* C27: the order of the fact rows.                                        *)
(***************************************************************************)
\* the permutations of 1..n
Perms(n) == {f \in [1..n -> 1..n] : \A i, j \in 1..n : f[i] = f[j] => i = j}

Permute(rows, f) == [i \in 1..Len(rows) |-> rows[f[i]]]

\* C27: the report is the same for every order of the daily rows, of the
\* piece-work rows and of the adjustment rows: every total and every
\* dias[d] of every row of out.
C27_RowOrderIrrelevant ==
  (pc = "done" /\ res = <<Reply(200, TRUE, TRUE, "")>>) =>
    \A p \in Perms(Len(diarias)) :
    \A q \in Perms(Len(empreitas)) :
    \A r \in Perms(Len(ajustesRows)) :
      Aggregate(funcList, Permute(diarias, p), Permute(empreitas, q),
                Permute(ajustesRows, r)) = out

\* a report over two daily rows of one worker with different amounts, both
\* integers, in a roster of two
C27_Witness ==
  /\ pc = "done"
  /\ Len(funcList) = 2
  /\ Len(diarias) = 2
  /\ diarias[1].funcionario_id = "w1" /\ diarias[2].funcionario_id = "w1"
  /\ ValorDia(diarias[1]) = Num(6) /\ ValorDia(diarias[2]) = Num(3)
  /\ \E i \in 1..2 : out[i].funcionario.id = "w1" /\ out[i].total_diaria = Num(9)
(***************************************************************************)
(* C28: one response for every request that entered the handler.           *)
(***************************************************************************)
\* the responses of the handler: 400 without a read, 500 after a failed
\* read, 200 with data
HandlerReply(r) ==
  \/ r.status = 400 /\ ~r.ok /\ ~r.data /\ reads = <<>>
  \/ r.status = 500 /\ ~r.ok /\ ~r.data /\ reads # <<>>
       /\ reads[Len(reads)].outcome \in {"error", "threw"}
  \/ r.status = 200 /\ r.ok /\ r.data /\ reads # <<>>
       /\ \A i \in 1..Len(reads) : reads[i].outcome = "data"

\* C28: a request that passed requireAuth ends, whatever each of the four
\* reads answers, and when it has ended it has sent exactly one response,
\* a 400, a 500 or a 200 with data; it sends nothing before, never a second
\* response, and a response sent is not changed.
C28_ExactlyOneResponse ==
  /\ (pc = "start") ~> (pc = "done")
  /\ [](pc = "done" => (Len(res) = 1 /\ HandlerReply(res[1])))
  /\ [](pc # "done" => res = <<>>)
  /\ [][res # <<>> => res' = res]_vars

\* a verified request whose third read failed: one 500
C28_Witness ==
  /\ auth.pc = "next" /\ auth.nexts = 1
  /\ pc = "done"
  /\ Len(reads) = 3 /\ reads[3].outcome = "error"
  /\ Len(res) = 1 /\ res[1].status = 500
(***************************************************************************)
(* C29: the report handler writes nothing.                                 *)
(***************************************************************************)
ReportTables == {"cadastro_func", "lanc_diarias", "empreitas", "lanc_diarias_ajustes"}

\* C29: on every path the handler leaves the four tables and every other
\* table as they are; what it issues are selects, on the four tables and in
\* their order; and the worker of each row of a report is the row read from
\* cadastro_func, as the store holds it.
C29_ReportReadsOnly ==
  /\ [][db' = db /\ UNCHANGED <<obra, user, lanc, equipe>>]_vars
  /\ [](/\ Len(reads) <= 4
        /\ \A i \in 1..Len(reads) :
             reads[i].table = <<"cadastro_func", "lanc_diarias", "empreitas",
                                "lanc_diarias_ajustes">>[i])
  /\ [](Succeeded =>
          /\ Len(out) = Len(funcList)
          /\ funcList = FuncionariosIn(db)
          /\ \A i \in 1..Len(out) :
               out[i].funcionario = funcList[i] /\ out[i].funcionario \in db.cadastro_func)

\* a report over a roster of two, each row carrying its worker as stored,
\* with fact rows in the store
C29_Witness ==
  /\ Succeeded
  /\ db.cadastro_func = {Ana, Bia}
  /\ db.lanc_diarias # <<>> /\ db.empreitas # <<>> /\ db.lanc_diarias_ajustes # <<>>
  /\ Len(reads) = 4
  /\ out[1].funcionario = Ana /\ out[2].funcionario = Bia
  /\ out[2].total_diaria # Num(0)
====
